---- MODULE Spec2Model ----
(***************************************************************************)
(* Stock ledger of the StockGest / PackControl inventory application.      *)
(*                                                                         *)
(* The database holds products and stock_movements; an AFTER INSERT        *)
(* trigger on stock_movements (update_product_stock) maintains             *)
(* products.current_stock.  The client forms (Movements page, the          *)
(* entry/exit dialog, the two product dialogs, the product deletions)      *)
(* are the operations.  One SQL statement, with the triggers it fires, is  *)
(* one atomic step: that is the granularity at which any reader can        *)
(* observe the database.                                                   *)
(*                                                                         *)
(* Numbers are decimals with three fractional digits, kept as a pair       *)
(* [u, f] standing for u + f/1000 with 0 <= f < 1000 (so u is the floor).  *)
(* Values sent by a form are such decimals; a DECIMAL(10,2) column stores  *)
(* them rounded to two digits and refuses magnitudes of 10^8 or more.      *)
(***************************************************************************)
EXTENDS Integers, Sequences, FiniteSets, TLC

VARIABLES
    products,         \* table products: id -> row, or NoRow
    stock_movements,  \* table stock_movements, in insertion order
    user_roles,       \* table user_roles: set of <<user_id, role>>
    issued,           \* product ids gen_random_uuid() has already produced
    opening,          \* each product's quantity when the ledger run began
    inflight,         \* SpecConcurrent only: the INSERT transactions and how far each has got
    client,           \* SpecViews only: the application open in the browser
    cache,            \* the client's query cache entry ["products"]
    catalog,          \* table products, its descriptive columns: id -> row, or NoRow
    categories,       \* table categories: id -> row, or NoRow
    suppliers,        \* table suppliers: id -> row, or NoRow
    profiles,         \* table profiles: the user ids that have a row
    form,             \* SpecEdit only: the product edit form as last loaded
    screen            \* SpecReports, SpecHistory: what the page last rendered

(* The variables the ledger specifications never touch *)
others == <<catalog, categories, suppliers, profiles, form, screen>>

vars == <<products, stock_movements, user_roles, issued, opening, inflight, client, cache,
          others>>

----------------------------------------------------------------------------
(* Bounds of the model *)

MaxMovements == 2

(* Transactions that may overlap in SpecConcurrent *)
MaxTransactions == 2

----------------------------------------------------------------------------
(* Decimal arithmetic *)

RECURSIVE TenTo(_)
TenTo(n) == IF n = 0 THEN 1 ELSE 10 * TenTo(n - 1)

(* Form values carry three fractional digits: one more than the columns keep. *)
Milli == TenTo(3)

Dec(u, f) == [u |-> u, f |-> f]

Zero == Dec(0, 0)

DecAdd(a, b) ==
    LET s == a.f + b.f
    IN  Dec(a.u + b.u + (s \div Milli), s % Milli)

DecNeg(a) == IF a.f = 0 THEN Dec(-a.u, 0) ELSE Dec(-a.u - 1, Milli - a.f)

DecSub(a, b) == DecAdd(a, DecNeg(b))

DecLt(a, b) == a.u < b.u \/ (a.u = b.u /\ a.f < b.f)

DecLe(a, b) == a = b \/ DecLt(a, b)

IsNegative(a) == a.u < 0

(* DECIMAL(10,2): precision 10, scale 2 *)
NumericPrecision == 10

NumericScale == 2

(* The smallest magnitude a DECIMAL(10,2) column refuses: 10^(10-2). *)
NumericLimit == Dec(TenTo(NumericPrecision - NumericScale), 0)

(* Rounding to the column's scale, half away from zero. *)
RoundNonNegative(a) ==
    LET step == Milli \div TenTo(NumericScale)
        h    == (a.f + (step \div 2)) \div step
    IN  IF h * step = Milli THEN Dec(a.u + 1, 0) ELSE Dec(a.u, h * step)

ToNumeric(a) ==
    IF a.u >= 0 THEN RoundNonNegative(a)
    ELSE DecNeg(RoundNonNegative(DecNeg(a)))

NumericFits(a) == DecLt(DecNeg(NumericLimit), a) /\ DecLt(a, NumericLimit)

----------------------------------------------------------------------------
(* Values the forms can submit *)

ProductIds == {"p1", "p2"}

CategoryIds == {"c1"}

SupplierIds == {"s1"}

(* A null category_id or supplier_id *)
NullId == "null"

(* An id with no row in products *)
NoRow == [row |-> "none"]

(* A product form opened to create: no product selected *)
NoProduct == "NoProduct"

NoUser == "NoUser"

Users == {"ana", "bob", "eve"}

Sessions == Users \cup {NoUser}

MovementTypes == {"entry", "exit", "adjustment"}

(* The largest value a DECIMAL(10,2) column holds: 99999999.99 *)
NumericMax == DecSub(NumericLimit, Dec(0, 10))

(* Quantities typed into a movement form: -1, 0, 0.01, 0.014, 99999999.99 *)
Amounts == { Dec(-1, 0), Zero, Dec(0, 10), Dec(0, 14), NumericMax }

(* Stocks typed into the product form: -1, 0 (the form's default), 99999999.99 *)
Stocks == { Dec(-1, 0), Zero, NumericMax }

(* Minimum stocks typed into a product form: -1, 5 *)
MinimumStocks == { Dec(-1, 0), Dec(5, 0) }

Existing == { p \in ProductIds : products[p] # NoRow }

MovementsOf(p) ==
    LET Of(m) == m.product_id = p
    IN  SelectSeq(stock_movements, Of)

----------------------------------------------------------------------------
(* Row level security *)

has_role(_user_id, _role) == <<_user_id, _role>> \in user_roles

IsAdminOrOperator(uid) ==
    uid # NoUser /\ (has_role(uid, "admin") \/ has_role(uid, "operator"))

(* Mutant: the insert policy does not compare user_id with auth.uid(). *)
CanInsertStockMovement_any_user_id(uid, row) == IsAdminOrOperator(uid)

(* Mutant: the insert policy asks for no role. *)
CanInsertStockMovement_any_authenticated(uid, row) ==
    uid # NoUser /\ row.user_id = uid

(* "Admins and operators can insert stock movements" *)
CanInsertStockMovement(uid, row) == IsAdminOrOperator(uid) /\ row.user_id = uid

(* Mutant: a policy lets admins update movements. *)
CanUpdateStockMovement_admins(uid) == uid # NoUser /\ has_role(uid, "admin")

(* stock_movements has row level security enabled and policies for SELECT  *)
(* and INSERT only: no role passes for UPDATE or DELETE.                   *)
CanUpdateStockMovement(uid) == FALSE

CanDeleteStockMovement(uid) == FALSE

(* "Admins and operators can insert products" / "... can update products" *)
CanInsertProduct(uid) == IsAdminOrOperator(uid)

CanUpdateProduct(uid) == IsAdminOrOperator(uid)

(* "Only admins can delete products" *)
CanDeleteProduct(uid) == uid # NoUser /\ has_role(uid, "admin")

----------------------------------------------------------------------------
(* Timestamps.  NOW() of the running statement is later than every         *)
(* timestamp already stored, so a stored timestamp is either Now (written  *)
(* by the running statement) or Earlier; once the statement has committed, *)
(* what it wrote is Earlier for the next one.                              *)

Earlier == "earlier"

Now == "now"

Elapse(prods) ==
    [p \in DOMAIN prods |->
        IF prods[p] = NoRow THEN NoRow ELSE [prods[p] EXCEPT !.updated_at = Earlier]]

(* Trigger update_products_updated_at: BEFORE UPDATE ON products *)
update_updated_at_column(row) == [row EXCEPT !.updated_at = Now]

----------------------------------------------------------------------------
(* The trigger on_stock_movement_created *)

(* Mutant: the adjustment is applied as a delta instead of replacing. *)
update_product_stock_adjustment_adds(prods, new) ==
    IF new.type = "exit" THEN
        [prods EXCEPT ![new.product_id].current_stock = DecSub(@, new.quantity)]
    ELSE [prods EXCEPT ![new.product_id].current_stock = DecAdd(@, new.quantity)]

(* Mutant: the exit branch adds, as the entry branch does. *)
update_product_stock_exit_adds(prods, new) ==
    IF new.type = "adjustment" THEN
        [prods EXCEPT ![new.product_id].current_stock = new.quantity]
    ELSE [prods EXCEPT ![new.product_id].current_stock = DecAdd(@, new.quantity)]

(* Mutant: an exit never takes the stock below zero. *)
update_product_stock_exit_floor(prods, new) ==
    IF new.type = "entry" THEN
        [prods EXCEPT ![new.product_id].current_stock = DecAdd(@, new.quantity)]
    ELSE IF new.type = "exit" THEN
        [prods EXCEPT ![new.product_id].current_stock =
            IF DecLt(@, new.quantity) THEN Zero ELSE DecSub(@, new.quantity)]
    ELSE [prods EXCEPT ![new.product_id].current_stock = new.quantity]

(* Mutant: an adjustment is recorded but leaves the stock as it was. *)
update_product_stock_adjustment_ignored(prods, new) ==
    IF new.type = "entry" THEN
        [prods EXCEPT ![new.product_id].current_stock = DecAdd(@, new.quantity)]
    ELSE IF new.type = "exit" THEN
        [prods EXCEPT ![new.product_id].current_stock = DecSub(@, new.quantity)]
    ELSE prods

(* Mutant: the trigger's UPDATE has no WHERE clause. *)
update_product_stock_all_products(prods, new) ==
    [p \in DOMAIN prods |->
        IF prods[p] = NoRow THEN NoRow
        ELSE update_updated_at_column(
                [prods[p] EXCEPT !.current_stock =
                    IF new.type = "entry" THEN DecAdd(@, new.quantity)
                    ELSE IF new.type = "exit" THEN DecSub(@, new.quantity)
                    ELSE new.quantity])]

(* Mutant: the trigger does nothing. *)
update_product_stock_missing(prods, new) == prods

update_product_stock(prods, new) ==
    IF new.type = "entry" THEN
        [prods EXCEPT ![new.product_id] =
            update_updated_at_column([@ EXCEPT !.current_stock = DecAdd(@, new.quantity)])]
    ELSE IF new.type = "exit" THEN
        [prods EXCEPT ![new.product_id] =
            update_updated_at_column([@ EXCEPT !.current_stock = DecSub(@, new.quantity)])]
    ELSE IF new.type = "adjustment" THEN
        [prods EXCEPT ![new.product_id] =
            update_updated_at_column([@ EXCEPT !.current_stock = new.quantity])]
    ELSE prods

----------------------------------------------------------------------------
(* SQL statements, each with its checks and triggers, as one result:       *)
(* [outcome, products, stock_movements].  A statement that raises leaves   *)
(* both tables as they were.                                               *)

Unchanged(outcome) ==
    [outcome |-> outcome, products |-> products, stock_movements |-> stock_movements]

(* Mutant: a failure of the trigger's update leaves the inserted row. *)
InsertStockMovement_row_kept(uid, values) ==
    LET new   == [values EXCEPT !.quantity = ToNumeric(values.quantity)]
        after == update_product_stock(products, new)
    IN  IF ~NumericFits(new.quantity) THEN Unchanged("StorageError")
        ELSE IF ~CanInsertStockMovement(uid, new) THEN Unchanged("Unauthorized")
        ELSE IF new.product_id \notin Existing THEN Unchanged("NotFound")
        ELSE IF ~NumericFits(after[new.product_id].current_stock)
             THEN [outcome         |-> "StorageError",
                   products        |-> products,
                   stock_movements |-> Append(stock_movements, new)]
        ELSE [outcome         |-> "success",
              products        |-> after,
              stock_movements |-> Append(stock_movements, new)]

(* Mutant: stock_movements.product_id carries no foreign key; the         *)
(* trigger's UPDATE then matches no row.                                   *)
InsertStockMovement_no_foreign_key(uid, values) ==
    LET new   == [values EXCEPT !.quantity = ToNumeric(values.quantity)]
        after == update_product_stock(products, new)
    IN  IF ~NumericFits(new.quantity) THEN Unchanged("StorageError")
        ELSE IF ~CanInsertStockMovement(uid, new) THEN Unchanged("Unauthorized")
        ELSE IF new.product_id \notin Existing
             THEN [outcome         |-> "success",
                   products        |-> products,
                   stock_movements |-> Append(stock_movements, new)]
        ELSE IF ~NumericFits(after[new.product_id].current_stock)
             THEN Unchanged("StorageError")
        ELSE [outcome         |-> "success",
              products        |-> after,
              stock_movements |-> Append(stock_movements, new)]

(* Mutant: the trigger works with the quantity as submitted, before the    *)
(* cast to the column type.                                                *)
InsertStockMovement_effect_unrounded(uid, values) ==
    LET new   == [values EXCEPT !.quantity = ToNumeric(values.quantity)]
        after == update_product_stock(products, values)
    IN  IF ~NumericFits(new.quantity) THEN Unchanged("StorageError")
        ELSE IF ~CanInsertStockMovement(uid, new) THEN Unchanged("Unauthorized")
        ELSE IF new.product_id \notin Existing THEN Unchanged("NotFound")
        ELSE IF ~NumericFits(after[new.product_id].current_stock)
             THEN Unchanged("StorageError")
        ELSE [outcome         |-> "success",
              products        |-> after,
              stock_movements |-> Append(stock_movements, new)]

(* INSERT INTO stock_movements: the value is cast to the column type, the  *)
(* insert policy is checked, the row is stored, and at the end of the      *)
(* statement the foreign key and the AFTER INSERT trigger run.             *)
InsertStockMovement(uid, values) ==
    LET new   == [values EXCEPT !.quantity = ToNumeric(values.quantity)]
        after == update_product_stock(products, new)
    IN  IF ~NumericFits(new.quantity) THEN Unchanged("StorageError")
        ELSE IF ~CanInsertStockMovement(uid, new) THEN Unchanged("Unauthorized")
        ELSE IF new.product_id \notin Existing THEN Unchanged("NotFound")
        ELSE IF ~NumericFits(after[new.product_id].current_stock)
             THEN Unchanged("StorageError")
        ELSE [outcome         |-> "success",
              products        |-> after,
              stock_movements |-> Append(stock_movements, new)]

(* UPDATE stock_movements SET ... WHERE id = <the i-th row>: rows the        *)
(* policies hide make it an update of zero rows.  No trigger is attached   *)
(* to UPDATE.                                                              *)
UpdateStockMovement(uid, i, row) ==
    IF ~CanUpdateStockMovement(uid) \/ i \notin 1..Len(stock_movements)
    THEN Unchanged("success")
    ELSE [outcome         |-> "success",
          products        |-> products,
          stock_movements |-> [stock_movements EXCEPT ![i] = row]]

(* DELETE FROM stock_movements WHERE id = <the i-th row> *)
DeleteStockMovement(uid, i) ==
    IF ~CanDeleteStockMovement(uid) \/ i \notin 1..Len(stock_movements)
    THEN Unchanged("success")
    ELSE [outcome         |-> "success",
          products        |-> products,
          stock_movements |-> SubSeq(stock_movements, 1, i - 1)
                              \o SubSeq(stock_movements, i + 1, Len(stock_movements))]

(* INSERT INTO products *)
InsertProduct(uid, id, row) ==
    LET new == [current_stock |->
                    IF "current_stock" \in DOMAIN row
                    THEN ToNumeric(row.current_stock)
                    ELSE Zero,                       \* DEFAULT 0
                minimum_stock |-> ToNumeric(row.minimum_stock),
                updated_at    |-> Now]                \* DEFAULT NOW()
    IN  IF ~NumericFits(new.current_stock) \/ ~NumericFits(new.minimum_stock)
             THEN Unchanged("StorageError")
        ELSE IF ~CanInsertProduct(uid) THEN Unchanged("Unauthorized")
        ELSE [outcome         |-> "success",
              products        |-> [products EXCEPT ![id] = new],
              stock_movements |-> stock_movements]

(* UPDATE products SET ... WHERE id = productId: rows the update policy    *)
(* hides, or a missing row, make it an update of zero rows, not an error.  *)
UpdateProduct(uid, id, set) ==
    LET cast == [k \in DOMAIN set |-> ToNumeric(set[k])]
        new  == update_updated_at_column(
                    [k \in DOMAIN products[id] |->
                        IF k \in DOMAIN cast THEN cast[k] ELSE products[id][k]])
    IN  IF \E k \in DOMAIN cast : ~NumericFits(cast[k]) THEN Unchanged("StorageError")
        ELSE IF ~CanUpdateProduct(uid) \/ id \notin Existing THEN Unchanged("success")
        ELSE [outcome         |-> "success",
              products        |-> [products EXCEPT ![id] = new],
              stock_movements |-> stock_movements]

(* Mutant: the deletion leaves the product's movements behind. *)
DeleteProduct_no_cascade(uid, id) ==
    IF ~CanDeleteProduct(uid) \/ id \notin Existing THEN Unchanged("success")
    ELSE [outcome         |-> "success",
          products        |-> [products EXCEPT ![id] = NoRow],
          stock_movements |-> stock_movements]

(* DELETE FROM products WHERE id = ...; stock_movements.product_id is      *)
(* ON DELETE CASCADE.                                                      *)
DeleteProduct(uid, id) ==
    LET Kept(m) == m.product_id # id
    IN  IF ~CanDeleteProduct(uid) \/ id \notin Existing THEN Unchanged("success")
        ELSE [outcome         |-> "success",
              products        |-> [products EXCEPT ![id] = NoRow],
              stock_movements |-> SelectSeq(stock_movements, Kept)]

----------------------------------------------------------------------------
(* Form validation (zod schemas) *)

(* Mutant: the Movements page lets a quantity of 0 through. *)
movementSchema_min_zero(values) ==
    /\ values.product_id # ""
    /\ values.type \in MovementTypes
    /\ DecLe(Zero, values.quantity)

(* Movements page: product_id min(1), quantity min(0.01) *)
movementSchema(values) ==
    /\ values.product_id # ""
    /\ values.type \in MovementTypes
    /\ DecLe(Dec(0, 10), values.quantity)

(* StockMovementDialog: product_id min(1), quantity min(0.01) *)
dialogMovementSchema(formData) ==
    /\ formData.product_id # ""
    /\ DecLe(Dec(0, 10), formData.quantity)

(* Mutant: the product form does not check current_stock. *)
productSchema_stock_unchecked(values) == DecLe(Zero, values.minimum_stock)

(* ProductDialog of the main application: both stocks min(0) *)
productSchema(values) ==
    /\ DecLe(Zero, values.minimum_stock)
    /\ DecLe(Zero, values.current_stock)

(* ProductDialog of packcontrol-pro: minimum_stock min(0), no stock field *)
packProductSchema(formData) == DecLe(Zero, formData.minimum_stock)

----------------------------------------------------------------------------
(* Operations: what each form's submit handler does with its input, as a   *)
(* statement result, and the action that makes it the new state.           *)

(* Movements page: form.handleSubmit(onSubmit) -> saveMutation.mutationFn *)
MovementsMutationFn(u, values) ==
    IF ~movementSchema(values) THEN Unchanged("ValidationError")
    ELSE IF u = NoUser THEN Unchanged("Unauthenticated")
    ELSE InsertStockMovement(u,
            [product_id |-> values.product_id,
             type       |-> values.type,
             quantity   |-> values.quantity,
             user_id    |-> u])

(* Entry / exit dialog: StockMovementDialog.handleSubmit *)
DialogHandleSubmit(u, type, formData) ==
    IF ~dialogMovementSchema(formData) THEN Unchanged("ValidationError")
    ELSE IF u = NoUser THEN Unchanged("Unauthenticated")
    ELSE InsertStockMovement(u,
            [product_id |-> formData.product_id,
             type       |-> type,
             quantity   |-> formData.quantity,
             user_id    |-> u])

(* Product dialog of the main application: saveMutation.mutationFn.        *)
(* productId = NoProduct when creating; id is the uuid a created row gets. *)
ProductMutationFn(u, productId, id, values) ==
    LET dataToSave == [minimum_stock |-> values.minimum_stock,
                       current_stock |-> values.current_stock]
    IN  IF ~productSchema(values) THEN Unchanged("ValidationError")
        ELSE IF productId # NoProduct THEN UpdateProduct(u, productId, dataToSave)
        ELSE InsertProduct(u, id, dataToSave)

(* Product dialog of packcontrol-pro: handleSubmit *)
PackProductHandleSubmit(u, product, id, formData) ==
    LET submitData == [minimum_stock |-> formData.minimum_stock]
    IN  IF ~packProductSchema(formData) THEN Unchanged("ValidationError")
        ELSE IF product # NoProduct THEN UpdateProduct(u, product, submitData)
        ELSE InsertProduct(u, id, submitData)

(* The statement's result becomes the new database state, and time moves  *)
(* on.  The ledger is capped at MaxMovements rows.                         *)
Commit(r) ==
    /\ Len(r.stock_movements) <= MaxMovements
    /\ products' = Elapse(r.products)
    /\ stock_movements' = r.stock_movements
    /\ issued' = issued \cup { p \in ProductIds : r.products[p] # NoRow }
    /\ UNCHANGED <<user_roles, opening, inflight, client, others>>

(* The query cache entry ["products"] of the client: the rows its queryFn  *)
(* last returned, and whether it has been invalidated or is being          *)
(* refetched since.  Every view that shows product quantities (product     *)
(* list, movement form selector, dashboard, reports) reads this entry.     *)
NoData == [data |-> NoRow, invalidated |-> FALSE]

(* queryClient.invalidateQueries({ queryKey: ["products"] }), or refetch() *)
(* of that query: the entry is refetched before it is used again.          *)
Invalidate(c) == IF c = NoData THEN c ELSE [c EXCEPT !.invalidated = TRUE]

(* What a handler does to the cache once its statement has succeeded *)
OnSuccess(r, c) == IF r.outcome = "success" THEN c ELSE cache

(* Movements page, saveMutation.onSuccess *)
MovementsOnSuccess(r) == OnSuccess(r, Invalidate(cache))

(* Entries / Exits page, onOpenChange of the dialog: refetch() of the      *)
(* ["entries"] / ["exits"] list only.                                      *)
DialogOnOpenChange(r) == OnSuccess(r, cache)

MovementsSaveMutation(u, values) ==
    /\ values.type \in MovementTypes
    /\ LET r == MovementsMutationFn(u, values)
       IN  Commit(r) /\ cache' = MovementsOnSuccess(r)

StockMovementDialogHandleSubmit(u, type, formData) ==
    /\ type \in {"entry", "exit"}
    /\ LET r == DialogHandleSubmit(u, type, formData)
       IN  Commit(r) /\ cache' = DialogOnOpenChange(r)

ProductDialogSaveMutation(u, productId, values) ==
    IF productId # NoProduct
    THEN /\ productId \in issued
         /\ LET r == ProductMutationFn(u, productId, productId, values)
            IN  Commit(r) /\ cache' = OnSuccess(r, Invalidate(cache))
    ELSE \E id \in ProductIds \ issued :
             LET r == ProductMutationFn(u, NoProduct, id, values)
             IN  Commit(r) /\ cache' = OnSuccess(r, Invalidate(cache))

(* onOpenChange of the product dialog is the Products page's               *)
(* handleCloseDialog, which calls refetch() of ["products"].               *)
PackProductDialogHandleSubmit(u, product, formData) ==
    IF product # NoProduct
    THEN /\ product \in issued
         /\ LET r == PackProductHandleSubmit(u, product, product, formData)
            IN  Commit(r) /\ cache' = OnSuccess(r, Invalidate(cache))
    ELSE \E id \in ProductIds \ issued :
             LET r == PackProductHandleSubmit(u, NoProduct, id, formData)
             IN  Commit(r) /\ cache' = OnSuccess(r, Invalidate(cache))

(* Products page: deleteMutation *)
ProductsDeleteMutation(u, id) ==
    /\ id \in issued
    /\ LET r == DeleteProduct(u, id)
       IN  Commit(r) /\ cache' = OnSuccess(r, Invalidate(cache))

(* Product dialog of packcontrol-pro: handleDelete *)
PackHandleDelete(u, product) ==
    /\ product \in issued
    /\ LET r == DeleteProduct(u, product)
       IN  Commit(r) /\ cache' = OnSuccess(r, Invalidate(cache))

(* queryFn of ["products"]: supabase.from("products").select(...), run     *)
(* when a view mounts, on refetch, after an invalidation, on window focus. *)
FetchProducts ==
    /\ cache' = [data |-> products, invalidated |-> FALSE]
    /\ UNCHANGED <<products, stock_movements, user_roles, issued, opening, inflight, client, others>>

----------------------------------------------------------------------------
(* Concurrent recording.  Every INSERT a client sends runs in a            *)
(* transaction of its own (READ COMMITTED): the row is inserted and gets   *)
(* created_at = NOW(), the transaction's start time; the trigger's UPDATE  *)
(* waits for the row lock of the product, then reads the latest committed  *)
(* version of the row and writes the new one; the commit makes the row and *)
(* the new quantity visible and releases the lock.  Transactions are       *)
(* numbered in the order they start, so created_at is that number.         *)

Transactions == 1..MaxTransactions

NoTransaction ==
    [pc |-> "idle", row |-> NoRow, written |-> NoRow, created_at |-> 0, committed_at |-> 0]

(* Mutant: the UPDATE does not wait for the product's row lock. *)
RowLockFree_never_waits(t) == TRUE

(* The row lock an UPDATE of products takes: free unless another           *)
(* transaction has updated the same product and not yet committed.         *)
RowLockFree(t) ==
    \A t2 \in Transactions \ {t} :
        ~ ( /\ inflight[t2].pc = "updated"
            /\ inflight[t2].row.product_id = inflight[t].row.product_id )

(* Movements page, saveMutation.mutationFn up to the INSERT being admitted *)
(* (schema, session, cast, insert policy, foreign key); a refused          *)
(* submission changes nothing.                                             *)
BeginInsert(t, u, values) ==
    LET new == [product_id |-> values.product_id,
                type       |-> values.type,
                quantity   |-> ToNumeric(values.quantity),
                user_id    |-> u]
    IN  /\ inflight[t].pc = "idle"
        /\ \A t2 \in Transactions : t2 < t => inflight[t2].pc # "idle"
        /\ IF /\ movementSchema(values)
              /\ u # NoUser
              /\ NumericFits(new.quantity)
              /\ CanInsertStockMovement(u, new)
              /\ new.product_id \in Existing
           THEN inflight' = [inflight EXCEPT ![t] =
                    [pc |-> "inserted", row |-> new, written |-> NoRow,
                     created_at |-> t, committed_at |-> 0]]
           ELSE UNCHANGED inflight
        /\ UNCHANGED <<products, stock_movements, user_roles, issued, opening, client, cache, others>>

(* The AFTER INSERT trigger: UPDATE products ... WHERE id = NEW.product_id *)
TriggerUpdate(t) ==
    LET after == update_product_stock(products, inflight[t].row)
                    [inflight[t].row.product_id]
    IN  /\ inflight[t].pc = "inserted"
        /\ RowLockFree(t)
        /\ inflight' = [inflight EXCEPT ![t] =
              IF NumericFits(after.current_stock)
              THEN [@ EXCEPT !.pc = "updated", !.written = after]
              ELSE [@ EXCEPT !.pc = "aborted"]]
        /\ UNCHANGED <<products, stock_movements, user_roles, issued, opening, client, cache, others>>

(* COMMIT: the inserted row and the product's new version become visible. *)
CommitInsert(t) ==
    /\ inflight[t].pc = "updated"
    /\ products' = Elapse([products EXCEPT ![inflight[t].row.product_id] =
                              inflight[t].written])
    /\ stock_movements' = Append(stock_movements, inflight[t].row)
    /\ inflight' = [inflight EXCEPT ![t] =
          [@ EXCEPT !.pc = "committed", !.committed_at = Len(stock_movements) + 1]]
    /\ UNCHANGED <<user_roles, issued, opening, client, cache, others>>

----------------------------------------------------------------------------
(* Specifications *)

MovementForms ==
    [product_id : ProductIds \cup {""}, type : MovementTypes, quantity : Amounts]

DialogForms == [product_id : ProductIds \cup {""}, quantity : Amounts]

ProductForms == [minimum_stock : MinimumStocks, current_stock : Stocks]

PackProductForms == [minimum_stock : MinimumStocks]

(* Roles as seeded by the administrator: signup alone gives only viewer. *)
SeededRoles == {<<"ana", "admin">>, <<"bob", "operator">>, <<"eve", "viewer">>}

NoForm == [productId |-> NoProduct]

NoScreen == [page |-> "none"]

(* The ledger specifications keep only the stock columns of products and  *)
(* leave the other tables and the views out.                               *)
InitOthers ==
    /\ catalog = [p \in ProductIds |-> NoRow]
    /\ categories = [c \in CategoryIds |-> NoRow]
    /\ suppliers = [s \in SupplierIds |-> NoRow]
    /\ profiles = Users
    /\ form = NoForm
    /\ screen = NoScreen

Init ==
    /\ products = [p \in ProductIds |-> NoRow]
    /\ stock_movements = <<>>
    /\ user_roles = SeededRoles
    /\ issued = {}
    /\ opening = [p \in ProductIds |-> Zero]
    /\ inflight = [t \in Transactions |-> NoTransaction]
    /\ client = "stockgest"
    /\ cache = NoData
    /\ InitOthers

Next ==
    \/ \E u \in Sessions, values \in MovementForms : MovementsSaveMutation(u, values)
    \/ \E u \in Sessions, type \in {"entry", "exit"}, formData \in DialogForms :
           StockMovementDialogHandleSubmit(u, type, formData)
    \/ \E u \in Sessions, productId \in ProductIds \cup {NoProduct}, values \in ProductForms :
           ProductDialogSaveMutation(u, productId, values)
    \/ \E u \in Sessions, product \in ProductIds \cup {NoProduct}, formData \in PackProductForms :
           PackProductDialogHandleSubmit(u, product, formData)
    \/ \E u \in Sessions, id \in ProductIds : ProductsDeleteMutation(u, id)
    \/ \E u \in Sessions, product \in ProductIds : PackHandleDelete(u, product)

Spec == Init /\ [][Next]_vars

(* The ledger alone: products as the product forms leave them, then only   *)
(* movements are recorded.  opening keeps each product's quantity from     *)
(* before its first movement.                                              *)
OpeningRows ==
    { [current_stock |-> ToNumeric(v.current_stock),
       minimum_stock |-> ToNumeric(v.minimum_stock),
       updated_at    |-> Earlier] :
          v \in { f \in ProductForms : productSchema(f) } }

InitLedger ==
    /\ products \in [ProductIds -> OpeningRows \cup {NoRow}]
    /\ stock_movements = <<>>
    /\ user_roles = SeededRoles
    /\ issued = Existing
    /\ opening = [p \in ProductIds |->
                     IF products[p] = NoRow THEN Zero ELSE products[p].current_stock]
    /\ inflight = [t \in Transactions |-> NoTransaction]
    /\ client = "stockgest"
    /\ cache = NoData
    /\ InitOthers

NextLedger ==
    \/ \E u \in Sessions, values \in MovementForms : MovementsSaveMutation(u, values)
    \/ \E u \in Sessions, type \in {"entry", "exit"}, formData \in DialogForms :
           StockMovementDialogHandleSubmit(u, type, formData)

SpecLedger == InitLedger /\ [][NextLedger]_vars

(* Overlapping movements on products that exist, each at quantity 0. *)
InitConcurrent ==
    /\ products = [p \in ProductIds |->
                      [current_stock |-> Zero, minimum_stock |-> Dec(5, 0),
                       updated_at |-> Earlier]]
    /\ stock_movements = <<>>
    /\ user_roles = SeededRoles
    /\ issued = ProductIds
    /\ opening = [p \in ProductIds |-> Zero]
    /\ inflight = [t \in Transactions |-> NoTransaction]
    /\ client = "stockgest"
    /\ cache = NoData
    /\ InitOthers

NextConcurrent ==
    \/ \E t \in Transactions, u \in Sessions, values \in MovementForms :
           BeginInsert(t, u, values)
    \/ \E t \in Transactions : TriggerUpdate(t)
    \/ \E t \in Transactions : CommitInsert(t)

SpecConcurrent == InitConcurrent /\ [][NextConcurrent]_vars

(* What one client shows while it records movements: the main application  *)
(* (Movements page) or packcontrol-pro (entry / exit dialog), on products  *)
(* that exist, with its ["products"] query fetched whenever a view asks.   *)
Apps == {"stockgest", "packcontrol"}

InitViews ==
    /\ products \in [ProductIds -> OpeningRows]
    /\ stock_movements = <<>>
    /\ user_roles = SeededRoles
    /\ issued = ProductIds
    /\ opening = [p \in ProductIds |-> products[p].current_stock]
    /\ inflight = [t \in Transactions |-> NoTransaction]
    /\ client \in Apps
    /\ cache = NoData
    /\ InitOthers

NextViews ==
    \/ FetchProducts
    \/ /\ client = "stockgest"
       /\ \E u \in Sessions, values \in MovementForms : MovementsSaveMutation(u, values)
    \/ /\ client = "packcontrol"
       /\ \E u \in Sessions, type \in {"entry", "exit"}, formData \in DialogForms :
              StockMovementDialogHandleSubmit(u, type, formData)

SpecViews == InitViews /\ [][NextViews]_vars

----------------------------------------------------------------------------
(* Dashboard, reports and product list: the figures each page computes     *)
(* from the rows its ["products"] query returned.  The client holds every  *)
(* DECIMAL as a number; here a number is an exact count of cents, and a    *)
(* product of two of them an exact count of 1/10000.                       *)

(* price is the one nullable numeric column *)
Null == [null |-> TRUE]

Cents(d) == d.u * 100 + (d.f \div 10)

(* supabase.from("products").select("*"): one record per row, in the order *)
(* the server returns them.                                                *)
SelectProducts ==
    LET ids == CHOOSE s \in [1..Cardinality(Existing) -> Existing] :
                   \A i, j \in DOMAIN s : i # j => s[i] # s[j]
    IN  [i \in DOMAIN ids |->
            [id            |-> ids[i],
             current_stock |-> products[ids[i]].current_stock,
             minimum_stock |-> products[ids[i]].minimum_stock,
             price         |-> catalog[ids[i]].price]]

(* p.price || 0 *)
PriceOrZero(p) == IF p.price = Null \/ p.price = Zero THEN 0 ELSE Cents(p.price)

(* Mutant: the product list calls a product low only below its minimum. *)
getStockStatus_below_only(current, minimum) ==
    IF DecLt(current, minimum) THEN "Baixo"
    ELSE IF 2 * Cents(current) <= 3 * Cents(minimum) THEN "Atenção"
    ELSE "Normal"

(* Products page: the label of the badge; minimum * 1.5 is compared as     *)
(* 2 * current <= 3 * minimum.                                             *)
getStockStatus(current, minimum) ==
    IF DecLe(current, minimum) THEN "Baixo"
    ELSE IF 2 * Cents(current) <= 3 * Cents(minimum) THEN "Atenção"
    ELSE "Normal"

(* products.filter(p => p.current_stock <= p.minimum_stock).length *)
FilterLowStock(data) ==
    LET Low(p) == DecLe(p.current_stock, p.minimum_stock)
    IN  Len(SelectSeq(data, Low))

(* Dashboard of the main application *)
DashboardLowStockProducts(data) == FilterLowStock(data)

(* Reports page *)
ReportsLowStockProducts(data) == FilterLowStock(data)

(* products.reduce((sum, p) => sum + (p.price || 0) * p.current_stock, 0) *)
RECURSIVE ReduceValue(_, _)
ReduceValue(sum, data) ==
    IF data = <<>> THEN sum
    ELSE ReduceValue(sum + PriceOrZero(Head(data)) * Cents(Head(data).current_stock),
                     Tail(data))

(* Dashboard, the variant with today's entries and exits:                  *)
(* products.reduce((sum, p) => sum + (p.current_stock * (p.price || 0)), 0) *)
RECURSIVE ReduceStockTimesPrice(_, _)
ReduceStockTimesPrice(sum, data) ==
    IF data = <<>> THEN sum
    ELSE ReduceStockTimesPrice(
             sum + Cents(Head(data).current_stock) * PriceOrZero(Head(data)),
             Tail(data))

DashboardTotalValue(data) == ReduceValue(0, data)

DashboardTodayTotalValue(data) == ReduceStockTimesPrice(0, data)

(* Mutant: the reports total is the sum of the prices. *)
ReportsTotalValue_prices_only(data) ==
    IF data = <<>> THEN 0
    ELSE PriceOrZero(Head(data)) * 100 + ReduceValue(0, Tail(data))

ReportsTotalValue(data) == ReduceValue(0, data)

DashboardRender ==
    /\ screen' = [page             |-> "dashboard",
                  totalProducts    |-> Len(SelectProducts),
                  lowStockProducts |-> DashboardLowStockProducts(SelectProducts),
                  totalValue       |-> DashboardTotalValue(SelectProducts)]
    /\ UNCHANGED <<products, stock_movements, user_roles, issued, opening, inflight,
                   client, cache, catalog, categories, suppliers, profiles, form>>

ReportsRender ==
    /\ screen' = [page             |-> "reports",
                  lowStockProducts |-> ReportsLowStockProducts(SelectProducts),
                  totalValue       |-> ReportsTotalValue(SelectProducts)]
    /\ UNCHANGED <<products, stock_movements, user_roles, issued, opening, inflight,
                   client, cache, catalog, categories, suppliers, profiles, form>>

(* Products page: one badge per listed product *)
ProductsRender ==
    /\ screen' = [page   |-> "products",
                  status |-> [p \in Existing |->
                                 getStockStatus(products[p].current_stock,
                                                products[p].minimum_stock)]]
    /\ UNCHANGED <<products, stock_movements, user_roles, issued, opening, inflight,
                   client, cache, catalog, categories, suppliers, profiles, form>>

(* Product sets the pages can be shown: quantities -1 (after an exit), 0,  *)
(* 0.01 and 5, minimums 0, 0.01 and 5, no price or a price of 0.01 or 2.50. *)
ReportStocks == { Dec(-1, 0), Zero, Dec(0, 10), Dec(5, 0) }

ReportMinimums == { Zero, Dec(0, 10), Dec(5, 0) }

Prices == { Null, Dec(0, 10), Dec(2, 500) }

InitReports ==
    /\ products \in [ProductIds ->
           [current_stock : ReportStocks, minimum_stock : ReportMinimums,
            updated_at : {Earlier}] \cup {NoRow}]
    /\ catalog \in [ProductIds ->
           [code : {"A", "B"}, price : Prices, category_id : {NullId},
            supplier_id : {NullId}] \cup {NoRow}]
    /\ \A p \in ProductIds : (catalog[p] = NoRow) <=> (products[p] = NoRow)
    /\ products["p1"] # NoRow => catalog["p1"].code = "A"
    /\ products["p2"] # NoRow => catalog["p2"].code = "B"
    /\ stock_movements = <<>>
    /\ user_roles = SeededRoles
    /\ issued = Existing
    /\ opening = [p \in ProductIds |-> Zero]
    /\ inflight = [t \in Transactions |-> NoTransaction]
    /\ client = "stockgest"
    /\ cache = NoData
    /\ categories = [c \in CategoryIds |-> NoRow]
    /\ suppliers = [s \in SupplierIds |-> NoRow]
    /\ profiles = Users
    /\ form = NoForm
    /\ screen = NoScreen

NextReports ==
    \/ DashboardRender
    \/ ReportsRender
    \/ ProductsRender

SpecReports == InitReports /\ [][NextReports]_vars

----------------------------------------------------------------------------
(* The catalog: the descriptive columns of products (code UNIQUE NOT NULL, *)
(* price, category_id and supplier_id with their foreign keys) and the     *)
(* tables categories and suppliers.  A statement here is the result        *)
(* [outcome, products, stock_movements, catalog, categories, suppliers].   *)

(* Codes typed into a product form; "" is the empty field *)
Codes == {"", "A", "B"}

(* Names typed into a category or supplier form *)
Names == {"", "x", "y"}

(* Prices typed into a product form: 0 (the form's default), 2.50 *)
FormPrices == { Zero, Dec(2, 500) }

(* The Categories / Suppliers form opened to create: no row selected *)
NoCategory == "NoCategory"

NoSupplier == "NoSupplier"

CategoriesExisting == { c \in CategoryIds : categories[c] # NoRow }

SuppliersExisting == { s \in SupplierIds : suppliers[s] # NoRow }

(* "Only admins can insert / update / delete categories" *)
CanInsertCategory(uid) == uid # NoUser /\ has_role(uid, "admin")

CanUpdateCategory(uid) == uid # NoUser /\ has_role(uid, "admin")

CanDeleteCategory(uid) == uid # NoUser /\ has_role(uid, "admin")

(* "Only admins can insert / update / delete suppliers" *)
CanInsertSupplier(uid) == uid # NoUser /\ has_role(uid, "admin")

CanUpdateSupplier(uid) == uid # NoUser /\ has_role(uid, "admin")

CanDeleteSupplier(uid) == uid # NoUser /\ has_role(uid, "admin")

(* A result on the stock columns, with the rest of the database as it is *)
Whole(r) ==
    [outcome         |-> r.outcome,
     products        |-> r.products,
     stock_movements |-> r.stock_movements,
     catalog         |-> catalog,
     categories      |-> categories,
     suppliers       |-> suppliers]

Failed(outcome) == Whole(Unchanged(outcome))

(* values.category_id || null, values.supplier_id || null *)
OrNull(v) == IF v = "" THEN NullId ELSE v

(* values.price || null *)
PriceOrNull(v) == IF v = Zero THEN Null ELSE ToNumeric(v)

(* The descriptive columns both product dialogs send *)
DescriptiveColumns(values) ==
    [code        |-> values.code,
     price       |-> PriceOrNull(values.price),
     category_id |-> OrNull(values.category_id),
     supplier_id |-> OrNull(values.supplier_id)]

(* Mutant: products.code carries no UNIQUE constraint. *)
WriteProductRow_code_not_unique(r, u, productId, id, values) ==
    LET target == IF productId = NoProduct THEN id ELSE productId
        new    == DescriptiveColumns(values)
    IN  IF r.outcome # "success" THEN Whole(r)
        ELSE IF productId # NoProduct /\ (~CanUpdateProduct(u) \/ productId \notin Existing)
             THEN Whole(r)
        ELSE IF new.category_id # NullId /\ new.category_id \notin CategoriesExisting
             THEN Failed("ForeignKeyViolation")
        ELSE IF new.supplier_id # NullId /\ new.supplier_id \notin SuppliersExisting
             THEN Failed("ForeignKeyViolation")
        ELSE [Whole(r) EXCEPT !.catalog = [catalog EXCEPT ![target] = new]]

(* The INSERT or UPDATE of a whole products row: r is what the statement   *)
(* does to the stock columns (cast, policies, rows matched); the unique    *)
(* index on code and the two foreign keys are checked on the row written.  *)
(* An UPDATE that matches no row checks nothing.                           *)
WriteProductRow(r, u, productId, id, values) ==
    LET target == IF productId = NoProduct THEN id ELSE productId
        new    == DescriptiveColumns(values)
    IN  IF r.outcome # "success" THEN Whole(r)
        ELSE IF productId # NoProduct /\ (~CanUpdateProduct(u) \/ productId \notin Existing)
             THEN Whole(r)
        ELSE IF \E q \in Existing \ {target} : catalog[q].code = new.code
             THEN Failed("UniqueViolation")
        ELSE IF new.category_id # NullId /\ new.category_id \notin CategoriesExisting
             THEN Failed("ForeignKeyViolation")
        ELSE IF new.supplier_id # NullId /\ new.supplier_id \notin SuppliersExisting
             THEN Failed("ForeignKeyViolation")
        ELSE [Whole(r) EXCEPT !.catalog = [catalog EXCEPT ![target] = new]]

(* Product dialog of the main application, the whole row: productSchema    *)
(* also asks for a code (min(1)).                                          *)
SaveProduct(u, productId, id, values) ==
    IF values.code = "" THEN Failed("ValidationError")
    ELSE WriteProductRow(ProductMutationFn(u, productId, id, values),
                         u, productId, id, values)

(* Product dialog of packcontrol-pro, the whole row *)
PackSaveProduct(u, product, id, formData) ==
    IF formData.code = "" THEN Failed("ValidationError")
    ELSE WriteProductRow(PackProductHandleSubmit(u, product, id, formData),
                         u, product, id, formData)

(* DELETE FROM products, the whole row *)
DeleteProductRow(u, id) ==
    LET r == DeleteProduct(u, id)
    IN  [Whole(r) EXCEPT !.catalog =
            [p \in ProductIds |-> IF r.products[p] = NoRow THEN NoRow ELSE catalog[p]]]

(* Categories page, saveMutation.mutationFn: categorySchema asks for a     *)
(* name; selectedCategoryId = NoCategory when creating.                         *)
SaveCategory(u, selectedCategoryId, id, values) ==
    IF values.name = "" THEN Failed("ValidationError")
    ELSE IF selectedCategoryId # NoCategory
         THEN IF ~CanUpdateCategory(u) \/ selectedCategoryId \notin CategoriesExisting
              THEN Failed("success")
              ELSE [Failed("success") EXCEPT !.categories =
                       [categories EXCEPT ![selectedCategoryId] = [name |-> values.name]]]
    ELSE IF ~CanInsertCategory(u) THEN Failed("Unauthorized")
    ELSE [Failed("success") EXCEPT !.categories =
             [categories EXCEPT ![id] = [name |-> values.name]]]

(* Mutant: products.category_id is ON DELETE SET NULL. *)
DeleteCategory_set_null(u, id) ==
    IF ~CanDeleteCategory(u) \/ id \notin CategoriesExisting THEN Failed("success")
    ELSE [Failed("success") EXCEPT
             !.categories = [categories EXCEPT ![id] = NoRow],
             !.catalog = [p \in ProductIds |->
                             IF catalog[p] # NoRow /\ catalog[p].category_id = id
                             THEN [catalog[p] EXCEPT !.category_id = NullId]
                             ELSE catalog[p]]]

(* Categories page, deleteMutation: rows the delete policy hides make it a *)
(* deletion of zero rows; products.category_id REFERENCES categories(id)   *)
(* with no ON DELETE clause refuses the deletion of a referenced row.      *)
DeleteCategory(u, id) ==
    IF ~CanDeleteCategory(u) \/ id \notin CategoriesExisting THEN Failed("success")
    ELSE IF \E p \in Existing : catalog[p].category_id = id
         THEN Failed("ForeignKeyViolation")
    ELSE [Failed("success") EXCEPT !.categories = [categories EXCEPT ![id] = NoRow]]

(* Suppliers page, saveMutation.mutationFn *)
SaveSupplier(u, selectedSupplierId, id, values) ==
    IF values.name = "" THEN Failed("ValidationError")
    ELSE IF selectedSupplierId # NoSupplier
         THEN IF ~CanUpdateSupplier(u) \/ selectedSupplierId \notin SuppliersExisting
              THEN Failed("success")
              ELSE [Failed("success") EXCEPT !.suppliers =
                       [suppliers EXCEPT ![selectedSupplierId] = [name |-> values.name]]]
    ELSE IF ~CanInsertSupplier(u) THEN Failed("Unauthorized")
    ELSE [Failed("success") EXCEPT !.suppliers =
             [suppliers EXCEPT ![id] = [name |-> values.name]]]

(* Suppliers page, deleteMutation *)
DeleteSupplier(u, id) ==
    IF ~CanDeleteSupplier(u) \/ id \notin SuppliersExisting THEN Failed("success")
    ELSE IF \E p \in Existing : catalog[p].supplier_id = id
         THEN Failed("ForeignKeyViolation")
    ELSE [Failed("success") EXCEPT !.suppliers = [suppliers EXCEPT ![id] = NoRow]]

(* The statement's result becomes the new database state.  issued keeps    *)
(* every id gen_random_uuid() has produced, of any table.                  *)
CommitCatalog(r) ==
    /\ products' = Elapse(r.products)
    /\ stock_movements' = r.stock_movements
    /\ catalog' = r.catalog
    /\ categories' = r.categories
    /\ suppliers' = r.suppliers
    /\ issued' = issued \cup { p \in ProductIds : r.products[p] # NoRow }
                        \cup { c \in CategoryIds : r.categories[c] # NoRow }
                        \cup { s \in SupplierIds : r.suppliers[s] # NoRow }
    /\ UNCHANGED <<user_roles, opening, inflight, client, profiles, form, screen>>

(* ProductDialog.saveMutation of the main application *)
ProductDialogSave(u, productId, values) ==
    IF productId # NoProduct
    THEN /\ productId \in issued
         /\ LET r == SaveProduct(u, productId, productId, values)
            IN  CommitCatalog(r) /\ cache' = OnSuccess(r, Invalidate(cache))
    ELSE \E id \in ProductIds \ issued :
             LET r == SaveProduct(u, NoProduct, id, values)
             IN  CommitCatalog(r) /\ cache' = OnSuccess(r, Invalidate(cache))

(* ProductDialog.handleSubmit of packcontrol-pro *)
PackProductDialogSave(u, product, formData) ==
    IF product # NoProduct
    THEN /\ product \in issued
         /\ LET r == PackSaveProduct(u, product, product, formData)
            IN  CommitCatalog(r) /\ cache' = OnSuccess(r, Invalidate(cache))
    ELSE \E id \in ProductIds \ issued :
             LET r == PackSaveProduct(u, NoProduct, id, formData)
             IN  CommitCatalog(r) /\ cache' = OnSuccess(r, Invalidate(cache))

(* Products page, deleteMutation, the whole row *)
ProductsDelete(u, id) ==
    /\ id \in issued
    /\ LET r == DeleteProductRow(u, id)
       IN  CommitCatalog(r) /\ cache' = OnSuccess(r, Invalidate(cache))

CategoriesSaveMutation(u, selectedCategoryId, values) ==
    IF selectedCategoryId # NoCategory
    THEN /\ selectedCategoryId \in issued
         /\ CommitCatalog(SaveCategory(u, selectedCategoryId, selectedCategoryId, values))
         /\ UNCHANGED cache
    ELSE \E id \in CategoryIds \ issued :
             CommitCatalog(SaveCategory(u, NoCategory, id, values)) /\ UNCHANGED cache

CategoriesDeleteMutation(u, id) ==
    /\ id \in issued
    /\ CommitCatalog(DeleteCategory(u, id))
    /\ UNCHANGED cache

SuppliersSaveMutation(u, selectedSupplierId, values) ==
    IF selectedSupplierId # NoSupplier
    THEN /\ selectedSupplierId \in issued
         /\ CommitCatalog(SaveSupplier(u, selectedSupplierId, selectedSupplierId, values))
         /\ UNCHANGED cache
    ELSE \E id \in SupplierIds \ issued :
             CommitCatalog(SaveSupplier(u, NoSupplier, id, values)) /\ UNCHANGED cache

SuppliersDeleteMutation(u, id) ==
    /\ id \in issued
    /\ CommitCatalog(DeleteSupplier(u, id))
    /\ UNCHANGED cache

(* Whole product forms: one minimum, the default quantity *)
CatalogProductForms ==
    [code : Codes, category_id : CategoryIds \cup {""}, supplier_id : SupplierIds \cup {""},
     price : FormPrices, minimum_stock : {Dec(5, 0)}, current_stock : {Zero}]

CatalogPackProductForms ==
    [code : Codes, category_id : CategoryIds \cup {""}, supplier_id : SupplierIds \cup {""},
     price : FormPrices, minimum_stock : {Dec(5, 0)}]

NameForms == [name : Names]

(* The tables as the migration leaves them *)
InitCatalog ==
    /\ products = [p \in ProductIds |-> NoRow]
    /\ catalog = [p \in ProductIds |-> NoRow]
    /\ categories = [c \in CategoryIds |-> NoRow]
    /\ suppliers = [s \in SupplierIds |-> NoRow]
    /\ stock_movements = <<>>
    /\ user_roles = SeededRoles
    /\ issued = {}
    /\ opening = [p \in ProductIds |-> Zero]
    /\ inflight = [t \in Transactions |-> NoTransaction]
    /\ client = "stockgest"
    /\ cache = NoData
    /\ profiles = Users
    /\ form = NoForm
    /\ screen = NoScreen

NextCatalog ==
    \/ \E u \in Sessions, productId \in ProductIds \cup {NoProduct},
          values \in CatalogProductForms : ProductDialogSave(u, productId, values)
    \/ \E u \in Sessions, product \in ProductIds \cup {NoProduct},
          formData \in CatalogPackProductForms : PackProductDialogSave(u, product, formData)
    \/ \E u \in Sessions, id \in ProductIds : ProductsDelete(u, id)
    \/ \E u \in Sessions, c \in CategoryIds \cup {NoCategory}, values \in NameForms :
           CategoriesSaveMutation(u, c, values)
    \/ \E u \in Sessions, id \in CategoryIds : CategoriesDeleteMutation(u, id)
    \/ \E u \in Sessions, s \in SupplierIds \cup {NoSupplier}, values \in NameForms :
           SuppliersSaveMutation(u, s, values)
    \/ \E u \in Sessions, id \in SupplierIds : SuppliersDeleteMutation(u, id)

SpecCatalog == InitCatalog /\ [][NextCatalog]_vars

----------------------------------------------------------------------------
(* Movement history: what the pages that list or count movements get from  *)
(* their queries.  Here a ledger row also carries its id and created_at;   *)
(* the table is kept in the order the rows were committed, which need not  *)
(* be the order of created_at.  Rows with equal created_at come out of     *)
(* ORDER BY in an order the server chooses: as committed, or the reverse.  *)

(* created_at: 1 is a moment of yesterday, 2 a moment of today *)
Times == 1..2

(* new Date().toDateString() === new Date(m.created_at).toDateString() *)
IsToday(created_at) == created_at = 2

(* .limit(5) of the dashboard's recent-movements query *)
RecentLimit == 5

(* Rows the ledger holds in SpecHistory *)
MaxHistory == 6

Reverse(rows) == [i \in 1..Len(rows) |-> rows[Len(rows) + 1 - i]]

(* sorted is in descending order of created_at; row goes after the rows    *)
(* that are not earlier than it.                                           *)
RECURSIVE InsertDescending(_, _)
InsertDescending(sorted, row) ==
    IF sorted = <<>> THEN <<row>>
    ELSE IF Head(sorted).created_at >= row.created_at
         THEN <<Head(sorted)>> \o InsertDescending(Tail(sorted), row)
    ELSE <<row>> \o sorted

RECURSIVE SortDescending(_)
SortDescending(rows) ==
    IF rows = <<>> THEN <<>>
    ELSE InsertDescending(SortDescending(SubSeq(rows, 1, Len(rows) - 1)), rows[Len(rows)])

(* Mutant: the queries have no ORDER BY. *)
OrderByCreatedAtDescending_unordered(rows, reversed) ==
    IF reversed THEN Reverse(rows) ELSE rows

(* .order("created_at", { ascending: false }) *)
OrderByCreatedAtDescending(rows, reversed) ==
    SortDescending(IF reversed THEN Reverse(rows) ELSE rows)

(* .eq("type", type) *)
EqType(rows, type) ==
    LET Is(m) == m.type = type
    IN  SelectSeq(rows, Is)

(* .limit(n) *)
Limit(rows, n) == SubSeq(rows, 1, IF Len(rows) < n THEN Len(rows) ELSE n)

(* Movements page: the ["movements"] query *)
MovementsQuery(reversed) == OrderByCreatedAtDescending(stock_movements, reversed)

(* Movements page: movements.filter(m => filterType === "all" || m.type === filterType) *)
filteredMovements(movements, filterType) ==
    LET Shown(m) == filterType = "all" \/ m.type = filterType
    IN  SelectSeq(movements, Shown)

(* Entries / Exits page of packcontrol-pro: the ["entries"] / ["exits"] query *)
EntriesQuery(reversed) ==
    OrderByCreatedAtDescending(EqType(stock_movements, "entry"), reversed)

ExitsQuery(reversed) ==
    OrderByCreatedAtDescending(EqType(stock_movements, "exit"), reversed)

(* Dashboard: the ["recent-movements"] query *)
RecentMovementsQuery(reversed) ==
    Limit(OrderByCreatedAtDescending(stock_movements, reversed), RecentLimit)

(* Dashboard: movements.filter(m => m.type === type && today === moveDate).length *)
TodayOfType(movements, type) ==
    LET Counted(m) == m.type = type /\ IsToday(m.created_at)
    IN  Len(SelectSeq(movements, Counted))

todayEntries(movements) == TodayOfType(movements, "entry")

todayExits(movements) == TodayOfType(movements, "exit")

FilterTypes == {"all"} \cup MovementTypes

MovementsRender(filterType, reversed) ==
    /\ screen' = [page      |-> "movements",
                  filter    |-> filterType,
                  movements |-> MovementsQuery(reversed),
                  list      |-> filteredMovements(MovementsQuery(reversed), filterType)]
    /\ UNCHANGED <<products, stock_movements, user_roles, issued, opening, inflight,
                   client, cache, catalog, categories, suppliers, profiles, form>>

EntriesRender(reversed) ==
    /\ screen' = [page |-> "entries", list |-> EntriesQuery(reversed)]
    /\ UNCHANGED <<products, stock_movements, user_roles, issued, opening, inflight,
                   client, cache, catalog, categories, suppliers, profiles, form>>

ExitsRender(reversed) ==
    /\ screen' = [page |-> "exits", list |-> ExitsQuery(reversed)]
    /\ UNCHANGED <<products, stock_movements, user_roles, issued, opening, inflight,
                   client, cache, catalog, categories, suppliers, profiles, form>>

(* Dashboard, the variant with today's entries and exits *)
DashboardTodayRender(reversed) ==
    /\ screen' = [page         |-> "today",
                  list         |-> RecentMovementsQuery(reversed),
                  todayEntries |-> todayEntries(RecentMovementsQuery(reversed)),
                  todayExits   |-> todayExits(RecentMovementsQuery(reversed))]
    /\ UNCHANGED <<products, stock_movements, user_roles, issued, opening, inflight,
                   client, cache, catalog, categories, suppliers, profiles, form>>

(* Ledgers of up to MaxHistory entries and exits on one product *)
InitHistory ==
    /\ \E n \in 0..MaxHistory :
         \E f \in [1..n -> [type : {"entry", "exit"}, created_at : Times]] :
             stock_movements =
                 [i \in 1..n |->
                     [id         |-> i,
                      product_id |-> "p1",
                      type       |-> f[i].type,
                      quantity   |-> Dec(0, 10),
                      user_id    |-> "ana",
                      created_at |-> f[i].created_at]]
    /\ products = [p \in ProductIds |->
                      IF p = "p1"
                      THEN [current_stock |-> Zero, minimum_stock |-> Dec(5, 0),
                            updated_at |-> Earlier]
                      ELSE NoRow]
    /\ user_roles = SeededRoles
    /\ issued = {"p1"}
    /\ opening = [p \in ProductIds |-> Zero]
    /\ inflight = [t \in Transactions |-> NoTransaction]
    /\ client = "stockgest"
    /\ cache = NoData
    /\ InitOthers

NextHistory ==
    \/ \E filterType \in FilterTypes, reversed \in BOOLEAN :
           MovementsRender(filterType, reversed)
    \/ \E reversed \in BOOLEAN : EntriesRender(reversed)
    \/ \E reversed \in BOOLEAN : ExitsRender(reversed)
    \/ \E reversed \in BOOLEAN : DashboardTodayRender(reversed)

SpecHistory == InitHistory /\ [][NextHistory]_vars

----------------------------------------------------------------------------
(* Editing a product while movements are recorded.  The product dialog of  *)
(* the main application loads the row through its ["product", id] query,   *)
(* copies it into the form, and on save sends the form's fields back,      *)
(* current_stock among them.  Here the form's stock fields are kept.       *)

(* Products page, handleEdit(id): the dialog opens, the ["product", id]    *)
(* query returns the row and the effect calls form.reset with its values.  *)
LoadProduct(productId) ==
    /\ productId \in Existing
    /\ form' = [productId |-> productId,
                values    |-> [minimum_stock |-> products[productId].minimum_stock,
                               current_stock |-> products[productId].current_stock]]
    /\ UNCHANGED <<products, stock_movements, user_roles, issued, opening, inflight,
                   client, cache, catalog, categories, suppliers, profiles, screen>>

(* The user leaves the stock field as loaded, types a minimum and saves:   *)
(* saveMutation, then onSuccess closes the dialog and resets the form.     *)
ProductDialogEditSave(u, minimum_stock) ==
    /\ form.productId # NoProduct
    /\ LET values == [form.values EXCEPT !.minimum_stock = minimum_stock]
           r      == ProductMutationFn(u, form.productId, form.productId, values)
       IN  /\ products' = Elapse(r.products)
           /\ stock_movements' = r.stock_movements
           /\ cache' = OnSuccess(r, Invalidate(cache))
           /\ form' = IF r.outcome = "success" THEN NoForm ELSE form
    /\ UNCHANGED <<user_roles, issued, opening, inflight, client,
                   catalog, categories, suppliers, profiles, screen>>

(* Products that exist, an edit form that may be opened on one of them,    *)
(* movements recorded through the Movements page meanwhile.                *)
InitEdit ==
    /\ products \in [ProductIds -> OpeningRows]
    /\ stock_movements = <<>>
    /\ user_roles = SeededRoles
    /\ issued = ProductIds
    /\ opening = [p \in ProductIds |-> products[p].current_stock]
    /\ inflight = [t \in Transactions |-> NoTransaction]
    /\ client = "stockgest"
    /\ cache = NoData
    /\ InitOthers

NextEdit ==
    \/ \E productId \in ProductIds : LoadProduct(productId)
    \/ \E u \in Sessions, values \in MovementForms : MovementsSaveMutation(u, values)
    \/ \E u \in Sessions, minimum_stock \in MinimumStocks :
           ProductDialogEditSave(u, minimum_stock)

SpecEdit == InitEdit /\ [][NextEdit]_vars

----------------------------------------------------------------------------
(* Registration and roles.  A row of auth.users is a row of profiles: the  *)
(* trigger on_auth_user_created writes both the profile and the first      *)
(* role.  Roles are granted and revoked by statements on user_roles, which *)
(* no page of the client sends; the policy decides who may.                *)

Roles == {"admin", "operator", "viewer"}

RolesOf(user_id) == { role \in Roles : has_role(user_id, role) }

(* "Only admins can manage user roles" (FOR ALL) *)
CanManageUserRoles(uid) == uid # NoUser /\ has_role(uid, "admin")

(* Mutant: a new user is made an operator. *)
handle_new_user_operator(new_id) ==
    [profiles   |-> profiles \cup {new_id},
     user_roles |-> user_roles \cup {<<new_id, "operator">>}]

(* The trigger function of AFTER INSERT ON auth.users *)
handle_new_user(new_id) ==
    [profiles   |-> profiles \cup {new_id},
     user_roles |-> user_roles \cup {<<new_id, "viewer">>}]

(* INSERT INTO user_roles (user_id, role): the policy's WITH CHECK, the     *)
(* foreign key to auth.users, UNIQUE(user_id, role)                        *)
InsertUserRole(uid, user_id, role) ==
    IF ~CanManageUserRoles(uid) THEN [outcome |-> "Unauthorized", user_roles |-> user_roles]
    ELSE IF user_id \notin profiles
         THEN [outcome |-> "ForeignKeyViolation", user_roles |-> user_roles]
    ELSE IF <<user_id, role>> \in user_roles
         THEN [outcome |-> "UniqueViolation", user_roles |-> user_roles]
    ELSE [outcome |-> "success", user_roles |-> user_roles \cup {<<user_id, role>>}]

(* DELETE FROM user_roles WHERE user_id = ... AND role = ...: rows the      *)
(* policy hides make it a deletion of zero rows.                           *)
DeleteUserRole(uid, user_id, role) ==
    IF ~CanManageUserRoles(uid) THEN [outcome |-> "success", user_roles |-> user_roles]
    ELSE [outcome |-> "success", user_roles |-> user_roles \ {<<user_id, role>>}]

(* UPDATE user_roles SET role = new_role WHERE user_id = ... AND role = ... *)
UpdateUserRole(uid, user_id, role, new_role) ==
    IF ~CanManageUserRoles(uid) \/ <<user_id, role>> \notin user_roles
    THEN [outcome |-> "success", user_roles |-> user_roles]
    ELSE IF new_role # role /\ <<user_id, new_role>> \in user_roles
         THEN [outcome |-> "UniqueViolation", user_roles |-> user_roles]
    ELSE [outcome |-> "success",
          user_roles |-> (user_roles \ {<<user_id, role>>}) \cup {<<user_id, new_role>>}]

(* Who can hold a session: the registered users, and nobody *)
SignedIn == profiles \cup {NoUser}

(* supabase.auth.signUp: a row of auth.users, and the trigger *)
SignUp(new_id) ==
    /\ new_id \in Users \ profiles
    /\ profiles' = handle_new_user(new_id).profiles
    /\ user_roles' = handle_new_user(new_id).user_roles
    /\ UNCHANGED <<products, stock_movements, issued, opening, inflight, client, cache,
                   catalog, categories, suppliers, form, screen>>

(* An INSERT into user_roles sent by a signed-in user *)
GrantRole(uid, user_id, role) ==
    /\ uid \in SignedIn
    /\ user_roles' = InsertUserRole(uid, user_id, role).user_roles
    /\ UNCHANGED <<products, stock_movements, issued, opening, inflight, client, cache,
                   catalog, categories, suppliers, profiles, form, screen>>

(* One form of each kind: product "A" without category, an entry of 0.01   *)
(* on each product, a category and a supplier named "x".                   *)
AccessProductForms ==
    { v \in CatalogProductForms :
          v.code = "A" /\ v.category_id = "" /\ v.supplier_id = "" /\ v.price = Zero }

AccessMovementForms ==
    { v \in MovementForms : v.type = "entry" /\ v.quantity = Dec(0, 10) /\ v.product_id # "" }

AccessNameForms == { v \in NameForms : v.name = "x" }

(* The first admin is there (seeded outside the client); the others have   *)
(* yet to register.                                                        *)
InitAccess ==
    /\ profiles = {"ana"}
    /\ user_roles = {<<"ana", "admin">>, <<"ana", "viewer">>}
    /\ products = [p \in ProductIds |-> NoRow]
    /\ catalog = [p \in ProductIds |-> NoRow]
    /\ categories = [c \in CategoryIds |-> NoRow]
    /\ suppliers = [s \in SupplierIds |-> NoRow]
    /\ stock_movements = <<>>
    /\ issued = {}
    /\ opening = [p \in ProductIds |-> Zero]
    /\ inflight = [t \in Transactions |-> NoTransaction]
    /\ client = "stockgest"
    /\ cache = NoData
    /\ form = NoForm
    /\ screen = NoScreen

NextAccess ==
    \/ \E new_id \in Users : SignUp(new_id)
    \/ \E uid \in Sessions, user_id \in Users \ {"ana"}, role \in Roles :
           GrantRole(uid, user_id, role)
    \/ \E u \in Sessions, values \in AccessMovementForms :
           u \in SignedIn /\ MovementsSaveMutation(u, values)
    \/ \E u \in Sessions, productId \in ProductIds \cup {NoProduct},
          values \in AccessProductForms :
           u \in SignedIn /\ ProductDialogSave(u, productId, values)
    \/ \E u \in Sessions, id \in ProductIds : u \in SignedIn /\ ProductsDelete(u, id)
    \/ \E u \in Sessions, c \in CategoryIds \cup {NoCategory}, values \in AccessNameForms :
           u \in SignedIn /\ CategoriesSaveMutation(u, c, values)
    \/ \E u \in Sessions, id \in CategoryIds :
           u \in SignedIn /\ CategoriesDeleteMutation(u, id)
    \/ \E u \in Sessions, s \in SupplierIds \cup {NoSupplier}, values \in AccessNameForms :
           u \in SignedIn /\ SuppliersSaveMutation(u, s, values)
    \/ \E u \in Sessions, id \in SupplierIds :
           u \in SignedIn /\ SuppliersDeleteMutation(u, id)

SpecAccess == InitAccess /\ [][NextAccess]_vars

----------------------------------------------------------------------------
(* The rule the specification gives for a movement, and its fold *)

ApplyRule(c, m) ==
    CASE m.type = "entry"      -> DecAdd(c, m.quantity)
      [] m.type = "exit"       -> DecSub(c, m.quantity)
      [] m.type = "adjustment" -> m.quantity

RECURSIVE Fold(_, _)
Fold(c, ms) == IF ms = <<>> THEN c ELSE Fold(ApplyRule(c, Head(ms)), Tail(ms))

Last(seq) == seq[Len(seq)]

StockOf(prods, p) == prods[p].current_stock

(* r records exactly one new movement on top of the current ledger *)
Recorded(r) ==
    /\ r.outcome = "success"
    /\ Len(r.stock_movements) = Len(stock_movements) + 1
    /\ SubSeq(r.stock_movements, 1, Len(stock_movements)) = stock_movements

(* Every result a movement form can get in the current state: the form's   *)
(* input with what the handler returns for it.                             *)
MovementSubmissions ==
    { [u |-> u, product_id |-> v.product_id, type |-> v.type, quantity |-> v.quantity,
       r |-> MovementsMutationFn(u, v)] : u \in Sessions, v \in MovementForms }
    \cup
    { [u |-> u, product_id |-> f.product_id, type |-> t, quantity |-> f.quantity,
       r |-> DialogHandleSubmit(u, t, f)] :
          u \in Sessions, t \in {"entry", "exit"}, f \in DialogForms }

----------------------------------------------------------------------------
(* C1 - Fold correctness: after any sequence of successfully recorded      *)
(* movements, each product's current_stock is the fold of its movements,   *)
(* in creation order, under the three-case rule (entry adds, exit          *)
(* subtracts, adjustment replaces), starting from the quantity the product *)
(* had before its first movement.  Checked under SpecLedger.               *)
C1_FoldCorrectness ==
    \A p \in Existing : StockOf(products, p) = Fold(opening[p], MovementsOf(p))

(* Two movements of different kinds recorded on one product, the second an *)
(* exit, and the quantity moved away from the opening one.                 *)
C1_Witness ==
    \E p \in Existing :
        /\ Len(MovementsOf(p)) = 2
        /\ MovementsOf(p)[1].type = "adjustment"
        /\ MovementsOf(p)[2].type = "exit"
        /\ StockOf(products, p) # opening[p]

----------------------------------------------------------------------------
(* C2 - The current quantity is never set directly by a product create or  *)
(* edit: a step changes the current_stock of an existing product only by   *)
(* recording a movement on it (one ledger row appended, for that product), *)
(* and a product that comes into existence starts at the column default 0, *)
(* not at a value the user chose.                                          *)
C2_StockOnlyThroughLedger ==
    [][ \A p \in ProductIds :
          /\ (products[p] # NoRow /\ products'[p] # NoRow
                /\ StockOf(products', p) # StockOf(products, p))
             => /\ Len(stock_movements') = Len(stock_movements) + 1
                /\ Last(stock_movements').product_id = p
          /\ (products[p] = NoRow /\ products'[p] # NoRow)
             => StockOf(products', p) = Zero ]_vars

----------------------------------------------------------------------------
(* C3 - Idempotent recomputation: in every reachable state, folding a      *)
(* product's full movement history from scratch (from quantity 0) gives    *)
(* the stored current_stock.                                               *)
C3_StockIsFoldOfHistory ==
    \A p \in Existing : StockOf(products, p) = Fold(Zero, MovementsOf(p))

----------------------------------------------------------------------------
(* C4 - Entry and exit are relative: whenever a movement form records an   *)
(* entry (exit) of quantity q on a product whose current_stock is c, the   *)
(* product's current_stock becomes c + q (c - q); q is the quantity of the *)
(* recorded ledger row, and the row carries the submitted product and      *)
(* kind.                                                                   *)
C4_EntryExitRelative ==
    \A s \in MovementSubmissions :
        (s.r.outcome = "success" /\ s.type \in {"entry", "exit"}) =>
            /\ Recorded(s.r)
            /\ LET m == Last(s.r.stock_movements)
                   c == StockOf(products, s.product_id)
               IN  /\ m.product_id = s.product_id
                   /\ m.type = s.type
                   /\ s.type = "entry" =>
                        StockOf(s.r.products, s.product_id) = DecAdd(c, m.quantity)
                   /\ s.type = "exit" =>
                        StockOf(s.r.products, s.product_id) = DecSub(c, m.quantity)

(* A product created at 0, then an entry of q1 and an exit of another      *)
(* quantity q2: it stands at 0 + q1 - q2.                                  *)
C4_Witness ==
    \E p \in Existing :
        /\ Len(stock_movements) = 2
        /\ MovementsOf(p) = stock_movements
        /\ stock_movements[1].type = "entry"
        /\ stock_movements[2].type = "exit"
        /\ stock_movements[1].quantity # stock_movements[2].quantity
        /\ StockOf(products, p) =
              DecSub(DecAdd(Zero, stock_movements[1].quantity),
                     stock_movements[2].quantity)

----------------------------------------------------------------------------
(* C5 - Adjustment is absolute: whenever a movement form records an        *)
(* adjustment of quantity q on a product, its current_stock becomes        *)
(* exactly q whatever it was before; and recording the same adjustment     *)
(* again right after changes no quantity.  Checked under SpecLedger, where *)
(* "right after" is the last ledger row.                                   *)
C5_AdjustmentAbsolute ==
    /\ \A s \in MovementSubmissions :
          (s.r.outcome = "success" /\ s.type = "adjustment") =>
              /\ Recorded(s.r)
              /\ Last(s.r.stock_movements).type = "adjustment"
              /\ Last(s.r.stock_movements).product_id = s.product_id
              /\ StockOf(s.r.products, s.product_id) = Last(s.r.stock_movements).quantity
    /\ (stock_movements # <<>> /\ Last(stock_movements).type = "adjustment") =>
          LET m == Last(stock_movements)
          IN  /\ StockOf(products, m.product_id) = m.quantity
              /\ \A s \in MovementSubmissions :
                    ( /\ s.r.outcome = "success"
                      /\ s.type = "adjustment"
                      /\ s.product_id = m.product_id
                      /\ Last(s.r.stock_movements).quantity = m.quantity )
                    => \A p \in Existing :
                           StockOf(s.r.products, p) = StockOf(products, p)

(* The same adjustment recorded twice in a row on a product that opened at *)
(* another quantity: it stands at the adjusted quantity.                   *)
C5_Witness ==
    /\ Len(stock_movements) = 2
    /\ stock_movements[1] = stock_movements[2]
    /\ stock_movements[2].type = "adjustment"
    /\ products[stock_movements[2].product_id] # NoRow
    /\ opening[stock_movements[2].product_id] # stock_movements[2].quantity
    /\ StockOf(products, stock_movements[2].product_id) = stock_movements[2].quantity

----------------------------------------------------------------------------
(* What the claims call a permitted user, and the smallest quantity the    *)
(* forms let through (0.01).                                               *)

Permitted(u) ==
    u # NoUser /\ (<<u, "admin">> \in user_roles \/ <<u, "operator">> \in user_roles)

OneCent == Dec(0, 10)

(* A well-formed submission: a quantity of at least 0.01, on an existing   *)
(* product, by a permitted user.                                           *)
WellFormed(s) ==
    /\ Permitted(s.u)
    /\ s.product_id \in Existing
    /\ DecLe(OneCent, s.quantity)

----------------------------------------------------------------------------
----------------------------------------------------------------------------
(* C7 (as claimed) - In every reachable state every product's              *)
(* current_stock is >= 0.                                                  *)
C7_StockNonNegative ==
    \A p \in Existing : ~IsNegative(StockOf(products, p))

(* C7 (amended) - In every reachable state a product's current_stock is    *)
(* >= 0 unless an exit has been recorded on that product: product creation *)
(* and edits, entries and adjustments never leave it negative.             *)
C7_NegativeOnlyAfterExit ==
    \A p \in Existing :
        IsNegative(StockOf(products, p)) =>
            \E i \in 1..Len(stock_movements) :
                /\ stock_movements[i].product_id = p
                /\ stock_movements[i].type = "exit"

(* A product whose only movement is an exit stands below zero. *)
C7_Witness ==
    \E p \in Existing :
        /\ IsNegative(StockOf(products, p))
        /\ Len(MovementsOf(p)) = 1

----------------------------------------------------------------------------
(* C8 - Atomicity on failure: whenever a movement form's submission fails, *)
(* for whatever reason (validation, no session, missing role, unknown      *)
(* product, numeric overflow of the quantity or of the trigger's update),  *)
(* the movement rows and every product are exactly what they were.         *)
C8_FailureChangesNothing ==
    \A s \in MovementSubmissions :
        s.r.outcome # "success" =>
            /\ s.r.stock_movements = stock_movements
            /\ s.r.products = products

(* A state with movements recorded in which a well-formed submission fails *)
(* inside the trigger: the quantity fits, the updated stock does not.      *)
C8_Witness ==
    /\ stock_movements # <<>>
    /\ \E s \in MovementSubmissions :
          /\ WellFormed(s)
          /\ NumericFits(ToNumeric(s.quantity))
          /\ s.r.outcome = "StorageError"

----------------------------------------------------------------------------
(* C9 - Indivisibility: between any two states a reader can observe, a     *)
(* movement row appears exactly together with its effect on its product:   *)
(* either the ledger and the products are both unchanged, or exactly one   *)
(* row is appended and the products differ exactly by that row's effect on *)
(* its product.  Checked under SpecLedger (only movements are recorded).   *)
C9_RowAndEffectTogether ==
    [][ \/ /\ stock_movements' = stock_movements
           /\ products' = products
        \/ /\ Len(stock_movements') = Len(stock_movements) + 1
           /\ stock_movements' = Append(stock_movements, Last(stock_movements'))
           /\ Last(stock_movements').product_id \in Existing
           /\ products' =
                [products EXCEPT ![Last(stock_movements').product_id].current_stock =
                    ApplyRule(@, Last(stock_movements'))] ]_vars

(* A movement row exists and its product no longer stands at its opening   *)
(* quantity.                                                               *)
C9_Witness ==
    \E p \in Existing :
        /\ Len(MovementsOf(p)) = 1
        /\ Len(stock_movements) = 1
        /\ StockOf(products, p) # opening[p]
        /\ StockOf(products, p) = ApplyRule(opening[p], stock_movements[1])

----------------------------------------------------------------------------
(* C10 (as claimed) - Validation boundary, in both movement forms: an      *)
(* entry or exit with quantity <= 0 is rejected with a validation error    *)
(* and changes nothing; an entry or exit of 0.01 on an existing product by *)
(* a permitted user succeeds.                                              *)
C10_ValidationBoundary ==
    \A s \in MovementSubmissions :
        s.type \in {"entry", "exit"} =>
            /\ DecLe(s.quantity, Zero) =>
                  /\ s.r.outcome = "ValidationError"
                  /\ s.r.stock_movements = stock_movements
                  /\ s.r.products = products
            /\ (s.quantity = OneCent /\ WellFormed(s)) => Recorded(s.r)

(* C10 (amended) - As claimed, except that the entry or exit of 0.01       *)
(* succeeds provided the resulting current_stock fits DECIMAL(10,2).       *)
C10_ValidationBoundaryInRange ==
    \A s \in MovementSubmissions :
        s.type \in {"entry", "exit"} =>
            /\ DecLe(s.quantity, Zero) =>
                  /\ s.r.outcome = "ValidationError"
                  /\ s.r.stock_movements = stock_movements
                  /\ s.r.products = products
            /\ ( /\ s.quantity = OneCent
                 /\ WellFormed(s)
                 /\ NumericFits(ApplyRule(StockOf(products, s.product_id),
                                          [type |-> s.type, quantity |-> OneCent])) )
               => Recorded(s.r)

(* An entry or exit of exactly 0.01 is the only movement recorded. *)
C10_Witness ==
    /\ Len(stock_movements) = 1
    /\ stock_movements[1].type \in {"entry", "exit"}
    /\ stock_movements[1].quantity = OneCent

----------------------------------------------------------------------------
(* C11 - Validation of adjustments: an adjustment is accepted for every    *)
(* quantity >= 0, including 0 (which sets current_stock to 0), and is      *)
(* rejected with a validation error only when the quantity is negative.    *)
(* Stated for a permitted user, an existing product and a quantity the     *)
(* column can hold.                                                        *)
C11_AdjustmentValidation ==
    \A s \in MovementSubmissions :
        s.type = "adjustment" =>
            /\ IsNegative(s.quantity) =>
                  /\ s.r.outcome = "ValidationError"
                  /\ s.r.stock_movements = stock_movements
                  /\ s.r.products = products
            /\ ( /\ ~IsNegative(s.quantity)
                 /\ NumericFits(ToNumeric(s.quantity))
                 /\ Permitted(s.u)
                 /\ s.product_id \in Existing )
               => /\ Recorded(s.r)
                  /\ StockOf(s.r.products, s.product_id) = ToNumeric(s.quantity)

----------------------------------------------------------------------------
(* C12 - Unknown product: a movement whose product id references no        *)
(* existing product (the empty selection, an id never created, a product   *)
(* deleted since the form loaded) fails, creates no movement row and       *)
(* changes no product; when nothing else is wrong with the submission the  *)
(* failure is the foreign key's (NotFound).                                *)
C12_UnknownProductFails ==
    \A s \in MovementSubmissions :
        s.product_id \notin Existing =>
            /\ s.r.outcome # "success"
            /\ s.r.stock_movements = stock_movements
            /\ s.r.products = products
            /\ ( /\ s.product_id # ""
                 /\ Permitted(s.u)
                 /\ DecLe(OneCent, s.quantity) )
               => s.r.outcome = "NotFound"

(* A product that had been created has been deleted, another one still     *)
(* exists, and a permitted user's movement on the deleted one is refused.  *)
C12_Witness ==
    /\ Existing # {}
    /\ \E p \in issued \ Existing :
          \E s \in MovementSubmissions :
              /\ s.product_id = p
              /\ s.r.outcome = "NotFound"

----------------------------------------------------------------------------
(* Rows a session can send to stock_movements directly, whatever the forms *)
(* would send: any product, kind, quantity and user_id.                    *)
InsertRows ==
    [product_id : ProductIds, type : MovementTypes, quantity : Amounts, user_id : Users]

(* C13 - Unauthorized writes have no effect: an attempt to record a        *)
(* movement by an actor who is not authenticated, or who holds neither the *)
(* admin nor the operator role, fails, creates no movement row and changes *)
(* no product - through either form, and for any row sent to the table     *)
(* directly.  A submission that passes the form's validation is refused    *)
(* as unauthenticated or unauthorized.                                     *)
C13_UnauthorizedNoEffect ==
    /\ \A s \in MovementSubmissions :
          ~Permitted(s.u) =>
              /\ s.r.outcome # "success"
              /\ s.r.stock_movements = stock_movements
              /\ s.r.products = products
              /\ (s.product_id # "" /\ DecLe(OneCent, s.quantity))
                 => s.r.outcome = (IF s.u = NoUser THEN "Unauthenticated"
                                                   ELSE "Unauthorized")
    /\ \A uid \in Sessions, row \in InsertRows :
          ~Permitted(uid) =>
              /\ InsertStockMovement(uid, row).outcome # "success"
              /\ InsertStockMovement(uid, row).stock_movements = stock_movements
              /\ InsertStockMovement(uid, row).products = products

(* With a product in place and a movement already recorded, a viewer's     *)
(* submission on that product is refused as unauthorized and a signed-out  *)
(* one as unauthenticated.                                                 *)
C13_Witness ==
    /\ stock_movements # <<>>
    /\ \E s, t \in MovementSubmissions :
          /\ s.product_id \in Existing
          /\ t.product_id \in Existing
          /\ s.u # NoUser
          /\ s.r.outcome = "Unauthorized"
          /\ t.r.outcome = "Unauthenticated"

----------------------------------------------------------------------------
(* C14 - The ledger is append-only: a step of the application leaves the   *)
(* movement rows as they are, or appends one row after them, or removes    *)
(* exactly the rows of a product deleted in that step; and an UPDATE or a  *)
(* DELETE sent to stock_movements by any session, for any row, changes     *)
(* nothing.                                                                *)
C14_LedgerAppendOnly ==
    /\ [](\A uid \in Sessions, i \in 1..Len(stock_movements) :
            /\ \A row \in InsertRows :
                  /\ UpdateStockMovement(uid, i, row).stock_movements = stock_movements
                  /\ UpdateStockMovement(uid, i, row).products = products
            /\ DeleteStockMovement(uid, i).stock_movements = stock_movements
            /\ DeleteStockMovement(uid, i).products = products)
    /\ [][ \/ stock_movements' = stock_movements
           \/ /\ Len(stock_movements') = Len(stock_movements) + 1
              /\ SubSeq(stock_movements', 1, Len(stock_movements)) = stock_movements
           \/ \E p \in Existing :
                 /\ products'[p] = NoRow
                 /\ stock_movements' =
                       SelectSeq(stock_movements, LAMBDA m : m.product_id # p) ]_vars

(* Two rows recorded by different users stand in the ledger while another  *)
(* product has been deleted.                                               *)
C14_Witness ==
    /\ Len(stock_movements) = 2
    /\ stock_movements[1].user_id # stock_movements[2].user_id
    /\ issued \ Existing # {}

----------------------------------------------------------------------------
(* C15 - In every reachable state every movement row references a product  *)
(* that currently exists; a step that deletes a product removes all the    *)
(* movements of that product and no movement of any other product.         *)
C15_MovementsReferenceProducts ==
    /\ [](\A i \in 1..Len(stock_movements) : stock_movements[i].product_id \in Existing)
    /\ [][ \A p \in Existing :
             products'[p] = NoRow =>
                 /\ \A i \in 1..Len(stock_movements') : stock_movements'[i].product_id # p
                 /\ \A q \in ProductIds \ {p} :
                       SelectSeq(stock_movements', LAMBDA m : m.product_id = q)
                          = SelectSeq(stock_movements, LAMBDA m : m.product_id = q) ]_vars

(* One product has been deleted and the only movement left belongs to a    *)
(* product that exists.                                                    *)
C15_Witness ==
    /\ issued \ Existing # {}
    /\ Len(stock_movements) = 1
    /\ stock_movements[1].product_id \in Existing

----------------------------------------------------------------------------
(* C16 - Every movement row carries the identity of the session that       *)
(* inserted it: a movement recorded through either form is stamped with    *)
(* the submitting user, any row accepted by the table carries the id of    *)
(* the session that sent it, and an insert naming another user's id is     *)
(* rejected without creating a row.  Hence every stored user_id is that of *)
(* a user allowed to record movements.                                     *)
C16_MovementCarriesActor ==
    /\ \A s \in MovementSubmissions :
          Recorded(s.r) => Last(s.r.stock_movements).user_id = s.u
    /\ \A uid \in Sessions, row \in InsertRows :
          /\ InsertStockMovement(uid, row).outcome = "success"
                => Last(InsertStockMovement(uid, row).stock_movements).user_id = uid
          /\ row.user_id # uid =>
                /\ InsertStockMovement(uid, row).outcome = "Unauthorized"
                /\ InsertStockMovement(uid, row).stock_movements = stock_movements
                /\ InsertStockMovement(uid, row).products = products
    /\ \A i \in 1..Len(stock_movements) : Permitted(stock_movements[i].user_id)

(* The operator has recorded a movement, and the admin's insert of a row   *)
(* naming the operator on that product is refused.                         *)
C16_Witness ==
    \E i \in 1..Len(stock_movements) :
        /\ stock_movements[i].user_id = "bob"
        /\ InsertStockMovement("ana",
               [stock_movements[i] EXCEPT !.quantity = OneCent]).outcome = "Unauthorized"
        /\ InsertStockMovement("bob",
               [stock_movements[i] EXCEPT !.quantity = OneCent]).outcome = "success"

----------------------------------------------------------------------------
(* C17 (as claimed) - Frame of recording a movement: a successful          *)
(* submission adds exactly one movement row after the existing ones, which *)
(* stay as they are, and changes the current_stock of the referenced       *)
(* product only: every other product and every other attribute of the      *)
(* referenced product is unchanged.                                        *)
C17_MovementFrame ==
    \A s \in MovementSubmissions :
        s.r.outcome = "success" =>
            /\ Recorded(s.r)
            /\ \A q \in ProductIds \ {s.product_id} : s.r.products[q] = products[q]
            /\ s.r.products[s.product_id] =
                  [products[s.product_id] EXCEPT
                      !.current_stock = StockOf(s.r.products, s.product_id)]

(* C17 (amended) - As claimed, except that the referenced product's        *)
(* updated_at is set to the time of the movement: of the referenced        *)
(* product only current_stock and updated_at change.                       *)
C17_MovementFrameButUpdatedAt ==
    \A s \in MovementSubmissions :
        s.r.outcome = "success" =>
            /\ Recorded(s.r)
            /\ \A q \in ProductIds \ {s.product_id} : s.r.products[q] = products[q]
            /\ s.r.products[s.product_id] =
                  [products[s.product_id] EXCEPT
                      !.current_stock = StockOf(s.r.products, s.product_id),
                      !.updated_at = Now]

(* Two products exist, one movement is in the ledger, and a further        *)
(* movement on one of them would succeed.                                  *)
C17_Witness ==
    /\ Existing = ProductIds
    /\ Len(stock_movements) = 1
    /\ \E s \in MovementSubmissions :
          /\ s.r.outcome = "success"
          /\ s.product_id # stock_movements[1].product_id

----------------------------------------------------------------------------
(* C18 - No lost updates: however the INSERT transactions overlap, every   *)
(* product's current_stock is the result of applying the movements         *)
(* committed on it one at a time in a serial order (the order of their     *)
(* commits), and every committed transaction's row is in the ledger once:  *)
(* no successful movement's effect is dropped.  Checked under              *)
(* SpecConcurrent.                                                         *)
C18_NoLostUpdates ==
    /\ \A p \in Existing : StockOf(products, p) = Fold(opening[p], MovementsOf(p))
    /\ Len(stock_movements) =
          Cardinality({ t \in Transactions : inflight[t].pc = "committed" })
    /\ \A t \in Transactions :
          inflight[t].pc = "committed" =>
              stock_movements[inflight[t].committed_at] = inflight[t].row

(* Two movements on one product overlapped - the one that started later    *)
(* committed first - and both have committed.                              *)
C18_Witness ==
    \E t1, t2 \in Transactions :
        /\ inflight[t1].pc = "committed"
        /\ inflight[t2].pc = "committed"
        /\ inflight[t1].row.product_id = inflight[t2].row.product_id
        /\ inflight[t1].created_at < inflight[t2].created_at
        /\ inflight[t2].committed_at < inflight[t1].committed_at
        /\ inflight[t1].row.type = "entry"
        /\ inflight[t2].row.type = "exit"

----------------------------------------------------------------------------
(* The committed movements of product p in the order of their created_at   *)
(* (transactions are numbered in that order).                              *)
ByCreationTime(p) ==
    LET S == SelectSeq(inflight,
                LAMBDA x : x.pc = "committed" /\ x.row.product_id = p)
    IN  [i \in 1..Len(S) |-> S[i].row]

(* C19 - The stored quantity equals the fold of the product's movements    *)
(* ordered by their creation timestamp, also when movements are recorded   *)
(* concurrently.  Checked under SpecConcurrent.                            *)
C19_FoldByCreationTime ==
    \A p \in Existing : StockOf(products, p) = Fold(opening[p], ByCreationTime(p))

----------------------------------------------------------------------------
(* C20 - Read-your-write: after the client has recorded a movement through *)
(* its movement form, the product quantities its views show are the        *)
(* updated ones: the cached product data either agrees with the stored     *)
(* current_stock of every product, or has been invalidated and is being    *)
(* refetched.  Checked under SpecViews, where the client is the only       *)
(* writer.                                                                 *)
C20_ReadYourWrite ==
    (cache # NoData /\ ~cache.invalidated) =>
        \A p \in Existing : StockOf(cache.data, p) = StockOf(products, p)

----------------------------------------------------------------------------
(* The stored products that are at or below their minimum *)
LowStock == { p \in Existing : DecLe(products[p].current_stock, products[p].minimum_stock) }

(* C21: a product is counted or badged as low stock exactly when its       *)
(* current_stock is at most its minimum_stock, equality and negative       *)
(* quantities included; the dashboard count, the reports count and the     *)
(* badges of the product list agree on it for every product set.           *)
C21_LowStockClassification ==
    /\ DashboardLowStockProducts(SelectProducts) = Cardinality(LowStock)
    /\ ReportsLowStockProducts(SelectProducts) = Cardinality(LowStock)
    /\ \A p \in Existing :
           getStockStatus(products[p].current_stock, products[p].minimum_stock) = "Baixo"
               <=> p \in LowStock
    /\ screen.page \in {"dashboard", "reports"} =>
           screen.lowStockProducts = Cardinality(LowStock)
    /\ screen.page = "products" =>
           { p \in Existing : screen.status[p] = "Baixo" } = LowStock

(* The product list shows one product exactly at its minimum and one with  *)
(* a negative quantity, both badged low.                                   *)
C21_Witness ==
    /\ screen.page = "products"
    /\ LowStock = ProductIds
    /\ products["p1"].current_stock = products["p1"].minimum_stock
    /\ IsNegative(products["p2"].current_stock)

----------------------------------------------------------------------------
(* Sum over a set of products of current_stock times price, in 1/10000;    *)
(* a product without a price contributes nothing.                          *)
RECURSIVE SumOfStockTimesPrice(_)
SumOfStockTimesPrice(ps) ==
    IF ps = {} THEN 0
    ELSE LET p == CHOOSE q \in ps : TRUE
         IN  SumOfStockTimesPrice(ps \ {p})
             + ( IF catalog[p].price = Null THEN 0
                 ELSE Cents(products[p].current_stock) * Cents(catalog[p].price) )

(* C22: the inventory value is the sum over all products of current_stock  *)
(* times price, a product without a price contributing 0; the dashboard    *)
(* and the reports compute the same total for the same product set.        *)
C22_InventoryValue ==
    /\ DashboardTotalValue(SelectProducts) = SumOfStockTimesPrice(Existing)
    /\ DashboardTodayTotalValue(SelectProducts) = SumOfStockTimesPrice(Existing)
    /\ ReportsTotalValue(SelectProducts) = SumOfStockTimesPrice(Existing)
    /\ screen.page \in {"dashboard", "reports"} =>
           screen.totalValue = SumOfStockTimesPrice(Existing)

(* The reports show 12.50 for 5 units at 2.50 and 5 units without a price. *)
C22_Witness ==
    /\ screen.page = "reports"
    /\ screen.totalValue = 125000
    /\ products["p1"] # NoRow /\ products["p2"] # NoRow
    /\ products["p1"].current_stock = Dec(5, 0) /\ catalog["p1"].price = Dec(2, 500)
    /\ products["p2"].current_stock = Dec(5, 0) /\ catalog["p2"].price = Null

----------------------------------------------------------------------------
(* Every product save a dialog of either application can submit in the     *)
(* current state, creating (productId = NoProduct) or editing a stored     *)
(* product, with the result the handler gets for it.                       *)
ProductSaves ==
    { [u |-> u, productId |-> productId, id |-> id, values |-> values,
       r |-> SaveProduct(u, productId, id, values)] :
          u \in Sessions, productId \in {NoProduct}, id \in ProductIds \ issued,
          values \in CatalogProductForms }
    \cup
    { [u |-> u, productId |-> productId, id |-> productId, values |-> values,
       r |-> SaveProduct(u, productId, productId, values)] :
          u \in Sessions, productId \in Existing, values \in CatalogProductForms }
    \cup
    { [u |-> u, productId |-> product, id |-> id, values |-> formData,
       r |-> PackSaveProduct(u, product, id, formData)] :
          u \in Sessions, product \in {NoProduct}, id \in ProductIds \ issued,
          formData \in CatalogPackProductForms }
    \cup
    { [u |-> u, productId |-> product, id |-> product, values |-> formData,
       r |-> PackSaveProduct(u, product, product, formData)] :
          u \in Sessions, product \in Existing, formData \in CatalogPackProductForms }

(* The save sends a code that another stored product already has *)
CodeTaken(s) == \E q \in Existing \ {s.id} : catalog[q].code = s.values.code

CodesUnique ==
    \A p, q \in Existing : p # q => catalog[p].code # catalog[q].code

LeavesProducts(r) == r.products = products /\ r.catalog = catalog

(* C23 as stated: no two products share a code, and creating a product     *)
(* with, or editing a product to, a code another product has fails and     *)
(* leaves all products unchanged.                                          *)
C23_CodesUnique ==
    /\ CodesUnique
    /\ \A s \in ProductSaves :
           CodeTaken(s) => s.r.outcome # "success" /\ LeavesProducts(s.r)

(* C23, amended: no two products share a code; a save with a code another  *)
(* product has leaves all products unchanged, and it fails unless it is an *)
(* edit by a user who may not update products, which updates no row and    *)
(* reports success.                                                        *)
C23_CodesUniqueOrNoRow ==
    /\ CodesUnique
    /\ \A s \in ProductSaves :
           CodeTaken(s) =>
               /\ LeavesProducts(s.r)
               /\ s.r.outcome = "success"
                     <=> (s.productId # NoProduct /\ ~CanUpdateProduct(s.u))

(* Two products with different codes are stored, and an operator's edit of *)
(* one to the code of the other is refused by the unique index.            *)
C23_Witness ==
    /\ Existing = ProductIds
    /\ \E s \in ProductSaves :
           /\ s.productId = "p1"
           /\ s.u = "bob"
           /\ s.values.code = catalog["p2"].code
           /\ s.r.outcome = "UniqueViolation"

----------------------------------------------------------------------------
(* The ledger rows of one kind created today *)
CreatedToday(type) ==
    { i \in 1..Len(stock_movements) :
          stock_movements[i].type = type /\ IsToday(stock_movements[i].created_at) }

(* C24: the dashboard's counts of today's entries and of today's exits     *)
(* equal the number of ledger rows of that kind created today, however     *)
(* many movements were recorded today.                                     *)
C24_TodayCounts ==
    screen.page = "today" =>
        /\ screen.todayEntries = Cardinality(CreatedToday("entry"))
        /\ screen.todayExits = Cardinality(CreatedToday("exit"))

----------------------------------------------------------------------------
(* No row of the list is below a row created before it *)
NewestFirst(list) ==
    \A i, j \in 1..Len(list) : i < j => list[i].created_at >= list[j].created_at

(* The list holds each ledger row of the kind once, and no other row *)
ExactlyOfKind(list, kind) ==
    /\ \A i, j \in 1..Len(list) : i # j => list[i].id # list[j].id
    /\ { list[i] : i \in 1..Len(list) }
           = { stock_movements[i] : i \in { k \in 1..Len(stock_movements) :
                   kind = "all" \/ stock_movements[k].type = kind } }

(* The rows of list are in the order they have in whole *)
SameRelativeOrder(list, whole) ==
    \A i, j \in 1..Len(list) : i < j =>
        \E a, b \in 1..Len(whole) : a < b /\ whole[a] = list[i] /\ whole[b] = list[j]

(* C25: every history view (all movements, entries only, exits only, the   *)
(* movements list filtered by kind) lists movements by creation time       *)
(* descending, so that no movement appears below one created before it;    *)
(* filtering by kind keeps exactly the movements of that kind, in the same *)
(* relative order.                                                         *)
C25_HistoryOrdering ==
    /\ screen.page = "movements" =>
           /\ NewestFirst(screen.movements) /\ ExactlyOfKind(screen.movements, "all")
           /\ NewestFirst(screen.list) /\ ExactlyOfKind(screen.list, screen.filter)
           /\ SameRelativeOrder(screen.list, screen.movements)
    /\ screen.page = "entries" =>
           NewestFirst(screen.list) /\ ExactlyOfKind(screen.list, "entry")
    /\ screen.page = "exits" =>
           NewestFirst(screen.list) /\ ExactlyOfKind(screen.list, "exit")

(* The movements list filtered to exits, over a ledger whose rows were     *)
(* committed in another order than they were created: today's exit is      *)
(* listed above yesterday's although it is stored before it.               *)
C25_Witness ==
    /\ screen.page = "movements"
    /\ screen.filter = "exit"
    /\ Len(screen.list) >= 2
    /\ Len(screen.movements) > Len(screen.list)
    /\ screen.list[1].created_at > screen.list[2].created_at
    /\ screen.list[1].id < screen.list[2].id

----------------------------------------------------------------------------
(* C26: saving a product edit in which the stock field was left as loaded  *)
(* leaves the product's current_stock at the value it had immediately      *)
(* before the save, whatever movements were recorded on the product since  *)
(* the form loaded it.                                                     *)
C26_EditKeepsStock ==
    [][ (form.productId # NoProduct /\ form' = NoForm)
            => StockOf(products', form.productId) = StockOf(products, form.productId) ]_vars

----------------------------------------------------------------------------
(* Every deletion the Categories page and the Suppliers page can submit in *)
(* the current state for a stored row, with its result                     *)
CategoryDeletes ==
    { [u |-> u, id |-> id, r |-> DeleteCategory(u, id)] :
          u \in Sessions, id \in CategoriesExisting }

SupplierDeletes ==
    { [u |-> u, id |-> id, r |-> DeleteSupplier(u, id)] :
          u \in Sessions, id \in SuppliersExisting }

CategoryReferenced(c) == \E p \in Existing : catalog[p].category_id = c

SupplierReferenced(s) == \E p \in Existing : catalog[p].supplier_id = s

ReferencesExist ==
    \A p \in Existing :
        /\ catalog[p].category_id \in CategoriesExisting \cup {NullId}
        /\ catalog[p].supplier_id \in SuppliersExisting \cup {NullId}

LeavesCatalog(r) ==
    /\ r.categories = categories
    /\ r.suppliers = suppliers
    /\ r.products = products
    /\ r.catalog = catalog

(* C27 as stated: each product's category and supplier reference is empty  *)
(* or names a row that exists; deleting a category or supplier that a      *)
(* product still references fails and leaves categories, suppliers and     *)
(* products unchanged.                                                     *)
C27_ReferencesExist ==
    /\ ReferencesExist
    /\ \A d \in CategoryDeletes :
           CategoryReferenced(d.id) => d.r.outcome # "success" /\ LeavesCatalog(d.r)
    /\ \A d \in SupplierDeletes :
           SupplierReferenced(d.id) => d.r.outcome # "success" /\ LeavesCatalog(d.r)

(* C27, amended: the references exist; deleting a referenced category or   *)
(* supplier leaves the three tables unchanged, and it fails exactly when   *)
(* an admin submits it: for anyone else it deletes no row and reports      *)
(* success.                                                                *)
C27_ReferencesExistOrNoRow ==
    /\ ReferencesExist
    /\ \A d \in CategoryDeletes :
           CategoryReferenced(d.id) =>
               /\ LeavesCatalog(d.r)
               /\ d.r.outcome = "success" <=> ~CanDeleteCategory(d.u)
    /\ \A d \in SupplierDeletes :
           SupplierReferenced(d.id) =>
               /\ LeavesCatalog(d.r)
               /\ d.r.outcome = "success" <=> ~CanDeleteSupplier(d.u)

(* A product references the category and the supplier, and the admin's     *)
(* deletion of either is refused by the foreign key.                       *)
C27_Witness ==
    /\ \E d \in CategoryDeletes :
           CategoryReferenced(d.id) /\ d.u = "ana" /\ d.r.outcome = "ForeignKeyViolation"
    /\ \E d \in SupplierDeletes :
           SupplierReferenced(d.id) /\ d.u = "ana" /\ d.r.outcome = "ForeignKeyViolation"

----------------------------------------------------------------------------
(* A registered user whose only role is viewer *)
ViewerOnly(u) == u \in profiles /\ RolesOf(u) = {"viewer"}

(* What a user's attempts through the client, and directly on the tables,  *)
(* would do in the current state: recording a movement ...                 *)
MovementAttempts(u) ==
    { s.r : s \in { t \in MovementSubmissions : t.u = u } }
    \cup { InsertStockMovement(u, row) : row \in InsertRows }

(* ... creating a product, a category, a supplier ...                      *)
CreateAttempts(u) ==
    { s.r : s \in { t \in ProductSaves : t.u = u /\ t.productId = NoProduct } }
    \cup { SaveCategory(u, NoCategory, id, v) : id \in CategoryIds \ issued, v \in NameForms }
    \cup { SaveSupplier(u, NoSupplier, id, v) : id \in SupplierIds \ issued, v \in NameForms }

(* ... updating or deleting a stored one.                                  *)
ChangeAttempts(u) ==
    { s.r : s \in { t \in ProductSaves : t.u = u /\ t.productId # NoProduct } }
    \cup { DeleteProductRow(u, id) : id \in Existing }
    \cup { SaveCategory(u, c, c, v) : c \in CategoriesExisting, v \in NameForms }
    \cup { DeleteCategory(u, c) : c \in CategoriesExisting }
    \cup { SaveSupplier(u, s, s, v) : s \in SuppliersExisting, v \in NameForms }
    \cup { DeleteSupplier(u, s) : s \in SuppliersExisting }

RoleAttempts(u) ==
    { InsertUserRole(u, user_id, role) : user_id \in Users, role \in Roles }
    \cup { DeleteUserRole(u, user_id, role) : user_id \in Users, role \in Roles }
    \cup { UpdateUserRole(u, user_id, role, new_role) :
               user_id \in Users, role \in Roles, new_role \in Roles }

LeavesLedger(r) == r.products = products /\ r.stock_movements = stock_movements

LeavesAll(r) == LeavesLedger(r) /\ LeavesCatalog(r)

(* The step that registers a user leaves them with a profile and the one   *)
(* role viewer.                                                            *)
RegisteredAsViewer ==
    \A u \in Users :
        (u \notin profiles /\ u \in profiles')
            => { role \in Roles : <<u, role>> \in user_roles' } = {"viewer"}

(* C28 as stated: a newly registered user gets a profile and exactly the   *)
(* role viewer; while a user holds only that role, every attempt of theirs *)
(* to record a movement or to create, update or delete a product, category *)
(* or supplier is rejected and changes nothing, and only an admin can give *)
(* them another role.                                                      *)
C28_ViewerRejected ==
    /\ [][RegisteredAsViewer]_vars
    /\ [](\A u \in Users : ViewerOnly(u) =>
             /\ \A r \in MovementAttempts(u) : r.outcome # "success" /\ LeavesLedger(r)
             /\ \A r \in CreateAttempts(u) \cup ChangeAttempts(u) :
                    r.outcome # "success" /\ LeavesAll(r)
             /\ \A r \in RoleAttempts(u) : r.user_roles = user_roles)

(* C28, amended: as stated, except that only the movements and the creates *)
(* are rejected with an error; an update or a delete by a viewer changes   *)
(* nothing either, but it matches no row and may report success.           *)
C28_ViewerChangesNothing ==
    /\ [][RegisteredAsViewer]_vars
    /\ [](\A u \in Users : ViewerOnly(u) =>
             /\ \A r \in MovementAttempts(u) : r.outcome # "success" /\ LeavesLedger(r)
             /\ \A r \in CreateAttempts(u) : r.outcome # "success" /\ LeavesAll(r)
             /\ \A r \in ChangeAttempts(u) : LeavesAll(r)
             /\ \A r \in RoleAttempts(u) : r.user_roles = user_roles)

(* eve registered and is still only a viewer, with a product, a category   *)
(* and a supplier stored for her attempts to aim at; bob, registered the   *)
(* same way, was made an operator by the admin and has recorded a movement. *)
C28_Witness ==
    /\ ViewerOnly("eve")
    /\ Existing # {} /\ CategoriesExisting # {} /\ SuppliersExisting # {}
    /\ RolesOf("bob") = {"viewer", "operator"}
    /\ \E i \in 1..Len(stock_movements) : stock_movements[i].user_id = "bob"

----------------------------------------------------------------------------
(* A value of the column type DECIMAL(10,2): no digit after the second     *)
(* decimal place.                                                          *)
TwoDecimals(a) == a.f % (Milli \div TenTo(NumericScale)) = 0

(* The quantity as the ledger row stores it *)
StoredQuantity(s) == ToNumeric(s.quantity)

(* What the rule makes of the product's quantity with the stored quantity *)
StoredEffect(s) ==
    ApplyRule(StockOf(products, s.product_id),
              [type |-> s.type, quantity |-> StoredQuantity(s)])

(* C29 - Two decimal places, consistently: every stored quantity and every *)
(* current_stock has two decimals; what a recorded movement adds to,       *)
(* subtracts from or assigns to current_stock is exactly the quantity its  *)
(* ledger row stores (the submitted one rounded to two decimals), so each  *)
(* current_stock stays the fold of the stored rows; a movement whose       *)
(* resulting current_stock does not fit DECIMAL(10,2) is rejected and      *)
(* leaves no ledger row.  Checked under SpecLedger.                        *)
C29_RoundingConsistent ==
    /\ \A i \in 1..Len(stock_movements) : TwoDecimals(stock_movements[i].quantity)
    /\ \A p \in Existing :
           /\ TwoDecimals(StockOf(products, p))
           /\ StockOf(products, p) = Fold(opening[p], MovementsOf(p))
    /\ \A s \in MovementSubmissions :
           s.product_id \in Existing =>
               /\ Recorded(s.r) =>
                      /\ Last(s.r.stock_movements).quantity = StoredQuantity(s)
                      /\ StockOf(s.r.products, s.product_id) = StoredEffect(s)
               /\ ~NumericFits(StoredEffect(s)) =>
                      /\ s.r.outcome # "success"
                      /\ s.r.products = products
                      /\ s.r.stock_movements = stock_movements

(* A product stands at 0.01 after a recorded movement; here a submission   *)
(* of 0.014 is recorded as 0.01, and an entry of the largest quantity      *)
(* would not fit and is refused.                                           *)
C29_Witness ==
    \E p \in Existing :
        /\ Len(MovementsOf(p)) >= 1
        /\ StockOf(products, p) = Dec(0, 10)
        /\ \E s \in MovementSubmissions :
               /\ s.product_id = p /\ s.quantity = Dec(0, 14) /\ s.type = "exit"
               /\ Recorded(s.r)
               /\ Last(s.r.stock_movements).quantity = Dec(0, 10)
               /\ StockOf(s.r.products, p) = Zero
        /\ \E s \in MovementSubmissions :
               /\ s.product_id = p /\ s.quantity = NumericMax /\ s.type = "entry"
               /\ ~NumericFits(StoredEffect(s))
               /\ s.r.outcome = "StorageError"

====
